---- MODULE Spec2Model ----
(***************************************************************************)
(* Model of the syllabus semantic pipeline (KARE R2025):                   *)
(*   Stage-2a  scripts/infer_content_shape.py   content shape inference    *)
(*   Stage-2b  scripts/validate_structure.py    structural validation      *)
(*   Stage-2c  scripts/validate_content_blocks.py  content block grammar   *)
(*   Stage-1   scripts/read_courses.py          ingestion and tokenizer    *)
(*   and the batch loops of process_courses_md.py and process_courses.py   *)
(*                                                                         *)
(* Text is modelled as sequences of one-character strings, so that         *)
(* lower(), strip(), splitlines() and the regular expressions are computed *)
(* on characters as the Python code computes them.  Python objects whose   *)
(* class matters (enum members, plain strings handed in where an enum is   *)
(* expected) are records [cls |-> class name, value |-> value]; two enum   *)
(* members are equal exactly when class and value agree, as Enum.__eq__    *)
(* (identity) decides it.                                                  *)
(***************************************************************************)
EXTENDS Integers, Sequences, FiniteSets, TLC

VARIABLES
    pc,        \* "import", "import_failed", "ready", "inferred", "validated"
    call,      \* the last call made: function and arguments (None before the first)
    ret,       \* what that call returned or raised (None before the first)
    frame      \* the locals of a batch loop that is running (None outside the loops)

vars == <<pc, call, ret, frame>>

None == [kind |-> "None"]

-----------------------------------------------------------------------------
(* Characters and str methods                                              *)

UpperCase == <<"A","B","C","D","E","F","G","H","I","J","K","L","M",
               "N","O","P","Q","R","S","T","U","V","W","X","Y","Z">>
LowerCase == <<"a","b","c","d","e","f","g","h","i","j","k","l","m",
               "n","o","p","q","r","s","t","u","v","w","x","y","z">>
Digits    == <<"0","1","2","3","4","5","6","7","8","9">>

Range(s) == { s[i] : i \in DOMAIN s }

DigitChars == Range(Digits)
WordChars  == Range(UpperCase) \cup Range(LowerCase) \cup Range(Digits) \cup {"_"}

IsSpace(c) == c \in {" ", "\t", "\n"}
IsDigit(c) == c \in DigitChars
IsWordChar(c) == c \in WordChars

\* lower case of the upper-case letters
LowerOf == [c \in Range(UpperCase) |-> LowerCase[CHOOSE i \in DOMAIN UpperCase : UpperCase[i] = c]]

\* str.lower() on one character
LowerChar(c) == IF c \in DOMAIN LowerOf THEN LowerOf[c] ELSE c

\* str.lower()
Lower(s) == [i \in DOMAIN s |-> LowerChar(s[i])]

\* s[i:i+len(k)] == k   (1-based i)
StartsAt(s, i, k) ==
    /\ i >= 1
    /\ i + Len(k) - 1 <= Len(s)
    /\ \A j \in 1..Len(k) : s[i + j - 1] = k[j]

\* k in s
Contains(s, k) == \E i \in 1..(Len(s) + 1) : StartsAt(s, i, k)

-----------------------------------------------------------------------------
(* Stage-2a: enumerations, policy table, override rules                     *)

Member(cls, v) == [cls |-> cls, value |-> v]

Cat(v)   == Member("CourseCategory", v)
Typ(v)   == Member("CourseType", v)
Shape(v) == Member("infer_content_shape.ContentShape", v)

CourseCategory == { Cat(v) : v \in {"FCM","FCE","PCM","PCE","SEM","SEE","MDM","MDE"} }
CourseType     == { Typ(v) : v \in {"TC","PC","IC-T","IC-P","SC"} }
ContentShape   == { Shape(v) : v \in {"academic_theory","academic_integrated",
                                      "skill_practice","project"} }

POLICY_VERSION == "R2025_v1.0"

CAPSTONE_KEYWORDS == <<
    <<"p","r","o","j","e","c","t">>,
    <<"c","a","p","s","t","o","n","e">>,
    <<"m","a","j","o","r"," ","p","r","o","j","e","c","t">>,
    <<"m","i","n","o","r"," ","p","r","o","j","e","c","t">>,
    <<"f","i","n","a","l"," ","y","e","a","r"," ","p","r","o","j","e","c","t">> >>

\* a table that (wrongly) gives the internship category a normal entry
PolicyRowsWithInternship ==
    { <<Cat(c), Typ("TC"), Shape("academic_theory")>> : c \in {"FCM","FCE","PCM","PCE","MDE","SEM"} }
    \cup
    { <<Cat(c), Typ(t), Shape("academic_integrated")>> :
        c \in {"FCM","FCE","PCM","PCE","MDE"}, t \in {"PC","IC-T","IC-P"} }
    \cup
    { <<Cat("SEE"), Typ("SC"), Shape("skill_practice")>> }

\* the rows of the policy table, as written in the source
PolicyRows ==
    { <<Cat(c), Typ("TC"), Shape("academic_theory")>> : c \in {"FCM","FCE","PCM","PCE","MDE"} }
    \cup
    { <<Cat(c), Typ(t), Shape("academic_integrated")>> :
        c \in {"FCM","FCE","PCM","PCE","MDE"}, t \in {"PC","IC-T","IC-P"} }
    \cup
    { <<Cat("SEE"), Typ("SC"), Shape("skill_practice")>> }

CONTENT_SHAPE_POLICY ==
    [ k \in { <<r[1], r[2]>> : r \in PolicyRows } |->
        (CHOOSE r \in PolicyRows : r[1] = k[1] /\ r[2] = k[2])[3] ]

FORBIDDEN_POLICY_CATEGORIES == { Cat("MDM"), Cat("SEM") }

\* the module-level assert that guards the table
PolicyGuard ==
    ~ \E k \in DOMAIN CONTENT_SHAPE_POLICY : k[1] \in FORBIDDEN_POLICY_CATEGORIES

OVERRIDE_RULES == <<
    [name |-> "Capstone Project (PCM)", shape |-> Shape("project")],
    [name |-> "EXSEL (MDM)",            shape |-> Shape("project")],
    [name |-> "SEM Internship",         shape |-> Shape("project")] >>

\* the capstone rule without the lower(): keywords are matched case-sensitively
CapstoneTitleCaseSensitive(title) ==
    \E i \in DOMAIN CAPSTONE_KEYWORDS : Contains(title, CAPSTONE_KEYWORDS[i])

\* any(k in title.lower() for k in CAPSTONE_KEYWORDS)
CapstoneTitle(title) ==
    \E i \in DOMAIN CAPSTONE_KEYWORDS : Contains(Lower(title), CAPSTONE_KEYWORDS[i])

\* the EXSEL rule restricted to practical courses
PredicateExselPCOnly(name, cat, ctype, title) ==
    CASE name = "Capstone Project (PCM)" ->
            cat = Cat("PCM") /\ ctype = Typ("PC") /\ CapstoneTitle(title)
      [] name = "EXSEL (MDM)" ->
            cat = Cat("MDM") /\ ctype = Typ("PC")
      [] name = "SEM Internship" ->
            cat = Cat("SEM") /\ ctype = Typ("PC")

\* the internship rule without its category test
PredicateInternshipAnyCategory(name, cat, ctype, title) ==
    CASE name = "Capstone Project (PCM)" ->
            cat = Cat("PCM") /\ ctype = Typ("PC") /\ CapstoneTitle(title)
      [] name = "EXSEL (MDM)" ->
            cat = Cat("MDM")
      [] name = "SEM Internship" ->
            ctype = Typ("PC")

\* rule.predicate(cat, ctype, title) of the rule called name
Predicate(name, cat, ctype, title) ==
    CASE name = "Capstone Project (PCM)" ->
            cat = Cat("PCM") /\ ctype = Typ("PC") /\ CapstoneTitle(title)
      [] name = "EXSEL (MDM)" ->
            cat = Cat("MDM")
      [] name = "SEM Internship" ->
            cat = Cat("SEM") /\ ctype = Typ("PC")

\* the list `matched` after the loop over OVERRIDE_RULES
Matched(cat, ctype, title) ==
    SelectSeq(OVERRIDE_RULES, LAMBDA r : Predicate(r.name, cat, ctype, title))

InferenceInput(code, title, cat, ctype) ==
    [kind |-> "InferenceInput", course_code |-> code, course_title |-> title,
     category |-> cat, course_type |-> ctype]

InferenceResult(code, shape, source, trace) ==
    [kind |-> "InferenceResult", course_code |-> code, inferred_shape |-> shape,
     rule_source |-> source, policy_version |-> POLICY_VERSION, trace |-> trace]

\* raise InferenceError(...): what the message reports
InferenceError(code, what, detail) ==
    [kind |-> "InferenceError", course_code |-> code, what |-> what, detail |-> detail]

\* the enum guard that checks the category only
EnumGuardCategoryOnly(i) ==
    IF i.category \notin CourseCategory
    THEN <<InferenceError(i.course_code, "unknown CourseCategory", <<i.category.value>>)>>
    ELSE <<>>

\* GUARD: ENUM SANITY CHECK: <<the error raised>>, or <<>> when both are members
EnumGuard(i) ==
    IF i.category \notin CourseCategory
    THEN <<InferenceError(i.course_code, "unknown CourseCategory", <<i.category.value>>)>>
    ELSE IF i.course_type \notin CourseType
    THEN <<InferenceError(i.course_code, "unknown CourseType", <<i.course_type.value>>)>>
    ELSE <<>>

\* the trace after the loop over OVERRIDE_RULES
OverrideTrace(matched) == [n \in DOMAIN matched |-> <<"override matched", matched[n].name>>]

\* STEP 1 with at least one rule matched
OverridePhase(i, matched) ==
    IF Len(matched) > 1
    THEN InferenceError(i.course_code, "multiple override rules matched",
                        [n \in DOMAIN matched |-> matched[n].name])
    ELSE InferenceResult(i.course_code, matched[1].shape,
                         <<"override:", matched[1].name>>,
                         Append(OverrideTrace(matched),
                                <<"content shape set by override", matched[1].shape.value>>))

\* the lookup with the key built as (course_type, category)
PolicyPhaseReversedKey(i) ==
    IF <<i.course_type, i.category>> \notin DOMAIN CONTENT_SHAPE_POLICY
    THEN InferenceError(i.course_code, "no content shape mapping",
                        <<i.category.value, i.course_type.value>>)
    ELSE InferenceResult(i.course_code, CONTENT_SHAPE_POLICY[<<i.course_type, i.category>>],
                         <<"policy">>,
                         << <<"policy lookup", i.category.value, i.course_type.value>>,
                            <<"content shape set by policy",
                              CONTENT_SHAPE_POLICY[<<i.course_type, i.category>>].value>> >>)

\* a missing mapping defaulted to academic_theory instead of being fatal
PolicyPhaseDefault(i) ==
    IF <<i.category, i.course_type>> \notin DOMAIN CONTENT_SHAPE_POLICY
    THEN InferenceResult(i.course_code, Shape("academic_theory"), <<"policy">>,
                         << <<"policy lookup", i.category.value, i.course_type.value>>,
                            <<"content shape set by policy", "academic_theory">> >>)
    ELSE InferenceResult(i.course_code, CONTENT_SHAPE_POLICY[<<i.category, i.course_type>>],
                         <<"policy">>,
                         << <<"policy lookup", i.category.value, i.course_type.value>>,
                            <<"content shape set by policy",
                              CONTENT_SHAPE_POLICY[<<i.category, i.course_type>>].value>> >>)

\* STEP 2: POLICY LOOKUP (no rule matched)
PolicyPhase(i) ==
    IF <<i.category, i.course_type>> \notin DOMAIN CONTENT_SHAPE_POLICY
    THEN InferenceError(i.course_code, "no content shape mapping",
                        <<i.category.value, i.course_type.value>>)
    ELSE InferenceResult(i.course_code, CONTENT_SHAPE_POLICY[<<i.category, i.course_type>>],
                         <<"policy">>,
                         << <<"policy lookup", i.category.value, i.course_type.value>>,
                            <<"content shape set by policy",
                              CONTENT_SHAPE_POLICY[<<i.category, i.course_type>>].value>> >>)

\* the two steps in the other order: the table first, the rules only for a
\* pair the table does not hold
InferPolicyFirst(i) ==
    IF EnumGuard(i) # <<>> THEN EnumGuard(i)[1]
    ELSE IF <<i.category, i.course_type>> \in DOMAIN CONTENT_SHAPE_POLICY
    THEN PolicyPhase(i)
    ELSE IF Matched(i.category, i.course_type, i.course_title) # <<>>
    THEN OverridePhase(i, Matched(i.category, i.course_type, i.course_title))
    ELSE PolicyPhase(i)

\* infer_content_shape(inp): the returned InferenceResult or the raised InferenceError
infer_content_shape(i) ==
    IF EnumGuard(i) # <<>> THEN EnumGuard(i)[1]
    ELSE IF Matched(i.category, i.course_type, i.course_title) # <<>>
    THEN OverridePhase(i, Matched(i.category, i.course_type, i.course_title))
    ELSE PolicyPhase(i)

-----
(* Inputs of the inference calls                                            *)

\* values a caller can hand in as category / course_type: the enum members and
\* plain strings (metadata that was never converted to the enum)
CategoryInputs == CourseCategory \cup { Member("str", "PCM"), Member("str", "XYZ") }
TypeInputs     == CourseType \cup { Member("str", "PC"), Member("CourseCategory", "PCM") }

tCapstoneProject == <<"C","a","p","s","t","o","n","e"," ","P","r","o","j","e","c","t">>
tMajorProject    == <<"M","A","J","O","R"," ","P","R","O","J","E","C","T">>
tCapstoneMixed   == <<"c","a","p","S","T","O","N","E">>
tProjectiles     == <<"P","r","o","j","e","c","t","i","l","e","s">>
tDigitalDesign   == <<"D","i","g","i","t","a","l"," ","D","e","s","i","g","n">>
tInternship      == <<"I","n","t","e","r","n","s","h","i","p">>

TitleInputs == { tCapstoneProject, tMajorProject, tCapstoneMixed, tProjectiles,
                 tDigitalDesign, tInternship, <<>> }

CourseCodes == { "25ECE101" }

-----------------------------------------------------------------------------
(* Text helpers used by Stage-2b                                            *)

CharAt(s, i) == IF i \in DOMAIN s THEN s[i] ELSE ""

\* first index >= i that holds no whitespace (Len(s)+1 if there is none)
SkipSpace(s, i) ==
    IF \E j \in i..Len(s) : ~IsSpace(s[j])
    THEN CHOOSE j \in i..Len(s) : ~IsSpace(s[j]) /\ \A h \in i..(j - 1) : IsSpace(s[h])
    ELSE Len(s) + 1

\* first index >= i that holds no digit (Len(s)+1 if there is none)
DigitEnd(s, i) ==
    IF \E j \in i..Len(s) : ~IsDigit(s[j])
    THEN CHOOSE j \in i..Len(s) : ~IsDigit(s[j]) /\ \A h \in i..(j - 1) : IsDigit(s[h])
    ELSE Len(s) + 1

\* str.strip()
Strip(s) ==
    LET a == SkipSpace(s, 1)
    IN  IF a > Len(s) THEN <<>>
        ELSE LET b == CHOOSE j \in a..Len(s) :
                        ~IsSpace(s[j]) /\ \A h \in (j + 1)..Len(s) : IsSpace(s[h])
             IN  SubSeq(s, a, b)

\* str.lstrip(chars)
LStripChars(s, chars) ==
    IF \E j \in DOMAIN s : s[j] \notin chars
    THEN SubSeq(s, CHOOSE j \in DOMAIN s : s[j] \notin chars /\ \A h \in 1..(j - 1) : s[h] \in chars,
                Len(s))
    ELSE <<>>

DigitValue(c) == (CHOOSE d \in DOMAIN Digits : Digits[d] = c) - 1

\* int(s) for a string of decimal digits
RECURSIVE ToInt(_)
ToInt(s) ==
    IF s = <<>> THEN 0
    ELSE 10 * ToInt(SubSeq(s, 1, Len(s) - 1)) + DigitValue(s[Len(s)])

\* str.splitlines() ("\n" is the only line break of the modelled alphabet):
\* line k runs from behind the (k-1)-th line break up to the k-th; a line break
\* at the very end opens no further line
SplitLines(s) ==
    LET breaks == { i \in DOMAIN s : s[i] = "\n" }
        nth(k) == IF k = 0 THEN 0
                  ELSE IF k > Cardinality(breaks) THEN Len(s) + 1
                  ELSE CHOOSE i \in breaks : Cardinality({ j \in breaks : j < i }) = k - 1
        count  == Cardinality(breaks) + (IF s = <<>> \/ s[Len(s)] = "\n" THEN 0 ELSE 1)
    IN  [k \in 1..count |-> SubSeq(s, nth(k - 1) + 1, nth(k) - 1)]

\* "\n".join(lines)
RECURSIVE JoinLines(_)
JoinLines(lines) ==
    IF lines = <<>> THEN <<>>
    ELSE IF Len(lines) = 1 THEN lines[1]
    ELSE lines[1] \o <<"\n">> \o JoinLines(Tail(lines))

Min(S) == CHOOSE x \in S : \A y \in S : x <= y

-----------------------------------------------------------------------------------------------------------------------------------------------------
(* Stage-2b: regular expressions.  An Optional[int] is <<>> (None) or <<n>>. *)
(* Every pattern is a sequence of greedy pieces over disjoint character     *)
(* classes, so the match at a start index is found without backtracking.   *)

wUnit       == <<"u","n","i","t">>
wHour       == <<"h","o","u","r">>
wTheory     == <<"t","h","e","o","r","y">>
wLecture    == <<"l","e","c","t","u","r","e">>
wLab        == <<"l","a","b">>
wPractical  == <<"p","r","a","c","t","i","c","a","l">>
wX          == <<"x">>
wActivity   == <<"a","c","t","i","v","i","t","y">>
wTotal      == <<"t","o","t","a","l">>
wExperiment == <<"e","x","p","e","r","i","m","e","n","t">>
wProject    == <<"p","r","o","j","e","c","t">>

\* index behind an optional character of `chars` at index i
SkipOptional(s, i, chars) == IF CharAt(s, i) \in chars THEN i + 1 ELSE i

\* int() of the run of digits that starts at index g
DigitsFrom(s, g) == ToInt(SubSeq(s, g, DigitEnd(s, g) - 1))

\* \s*[:\-]?\s* read from index c: the index where (\d+) must start
SeparatorEnd(s, c) == SkipSpace(s, SkipOptional(s, SkipSpace(s, c), {":", "-"}))

\* word\s*hours? read from index i (ls is s in lower case): the index behind it
HoursWordEnd(s, ls, i, word) ==
    SkipOptional(ls, SkipSpace(s, i + Len(word)) + Len(wHour), {"s"})

\* (word\s*hours?)\s*[:\-]?\s*(\d+) matches at index i, ignoring case
HoursMatchAt(s, ls, i, word) ==
    /\ StartsAt(ls, i, word)
    /\ StartsAt(ls, SkipSpace(s, i + Len(word)), wHour)
    /\ IsDigit(CharAt(s, SeparatorEnd(s, HoursWordEnd(s, ls, i, word))))

\* int(m.group(2)) of the match at index i
HoursGroup2(s, ls, i, words) ==
    DigitsFrom(s, SeparatorEnd(s, HoursWordEnd(s, ls, i,
                    CHOOSE w \in words : HoursMatchAt(s, ls, i, w))))

\* the leftmost of the start indexes `hits`
HoursLeftmost(s, ls, words, hits) ==
    IF hits = {} THEN <<>> ELSE <<HoursGroup2(s, ls, Min(hits), words)>>

\* RE.search(s) for an hours pattern with the alternatives `words`:
\* <<int(m.group(2))>> of the leftmost match, <<>> when nothing matches
HoursSearch(s, ls, words) ==
    HoursLeftmost(s, ls, words,
                  { i \in DOMAIN s : \E w \in words : HoursMatchAt(s, ls, i, w) })

THEORY_HOURS_RE(s) == HoursSearch(s, Lower(s), {wTheory, wLecture})
LAB_HOURS_RE(s)    == HoursSearch(s, Lower(s), {wLab, wPractical})
X_HOURS_RE(s)      == HoursSearch(s, Lower(s), {wX, wActivity})
TOTAL_HOURS_RE(s)  == HoursSearch(s, Lower(s), {wTotal})

\* \b at index i of s (between s[i-1] and s[i])
WordBoundary(s, i) == IsWordChar(CharAt(s, i - 1)) # IsWordChar(CharAt(s, i))

\* unit\s*[-:]?\s* read from index i: the index where (?P<num>...) must start
UnitNumStart(s, i) ==
    SkipSpace(s, SkipOptional(s, SkipSpace(s, i + Len(wUnit)), {"-", ":"}))

\* \bunit\s*[-:]?\s*(?P<num>[1-9]\d*) matches at index i, ignoring case
UnitMatchAt(s, ls, i) ==
    /\ StartsAt(ls, i, wUnit)
    /\ WordBoundary(s, i)
    /\ IsDigit(CharAt(s, UnitNumStart(s, i)))
    /\ CharAt(s, UnitNumStart(s, i)) # "0"

UnitLeftmost(s, hits) ==
    IF hits = {} THEN <<>> ELSE <<DigitsFrom(s, UnitNumStart(s, Min(hits)))>>

UnitSearch(s, ls) == UnitLeftmost(s, { i \in DOMAIN s : UnitMatchAt(s, ls, i) })

\* UNIT_HEADER_RE.search(title): <<int(m.group("num"))>> or <<>>
UNIT_HEADER_RE(s) == UnitSearch(s, Lower(s))

ExperimentWordIn(s, ls) ==
    \E i \in DOMAIN s : \E w \in {wExperiment, wLab} :
        /\ StartsAt(ls, i, w)
        /\ WordBoundary(s, i)
        /\ WordBoundary(s, i + Len(w))

\* re.search(r"\b(experiment|lab)\b", s, re.I) is not None
ExperimentWord(s) == ExperimentWordIn(s, Lower(s))

-----------------------------------------------------------------------------
(* Stage-2b: extractors                                                     *)

VShape(v) == Member("validate_structure.ContentShape", v)

VContentShape == { VShape(v) : v \in {"academic_theory","academic_integrated",
                                      "skill_practice","project"} }

\* validate_structure.MarkdownSection
MarkdownSection(title, body) == [title |-> title, body |-> body]

\* UnitBlock as extract_units creates it (the title field, used only to label
\* messages, is left out)
UnitBlock(number) ==
    [number |-> number, topics |-> <<>>, experiments |-> <<>>,
     theory_hours |-> <<>>, lab_hours |-> <<>>, x_hours |-> <<>>]

OrZero(o) == IF o = <<>> THEN 0 ELSE o[1]

\* truth value of an Optional[int]: neither None nor 0
Truthy(o) == o # <<>> /\ o[1] # 0

\* o == 0
IsZero(o) == o # <<>> /\ o[1] = 0

\* a total that counts the theory hours only
total_hoursTheoryOnly(u) == OrZero(u.theory_hours)

\* UnitBlock.total_hours
total_hours(u) == OrZero(u.theory_hours) + OrZero(u.lab_hours) + OrZero(u.x_hours)

\* the hour patterns with a field that keeps its first declaration
ScanHoursFirstWins(u, s, mt, ml, mx) ==
    IF mt # <<>> THEN (IF u.theory_hours = <<>> THEN [u EXCEPT !.theory_hours = mt] ELSE u)
    ELSE IF ml # <<>> THEN (IF u.lab_hours = <<>> THEN [u EXCEPT !.lab_hours = ml] ELSE u)
    ELSE IF mx # <<>> THEN (IF u.x_hours = <<>> THEN [u EXCEPT !.x_hours = mx] ELSE u)
    ELSE IF ExperimentWord(s) THEN [u EXCEPT !.experiments = Append(@, s)]
    ELSE u

\* the patterns with a lab-hours line that mentions a lab or an experiment
\* recorded as an experiment as well
ScanHoursAlsoExperiment(u, s, mt, ml, mx) ==
    IF mt # <<>> THEN [u EXCEPT !.theory_hours = mt]
    ELSE IF ml # <<>>
    THEN [u EXCEPT !.lab_hours = ml,
                   !.experiments = IF ExperimentWord(s) THEN Append(@, s) ELSE @]
    ELSE IF mx # <<>> THEN [u EXCEPT !.x_hours = mx]
    ELSE IF ExperimentWord(s) THEN [u EXCEPT !.experiments = Append(@, s)]
    ELSE u

\* the hour patterns and the experiment pattern, tried in the order of the code
\* (mt, ml, mx: results of the three searches on s)
ScanHours(u, s, mt, ml, mx) ==
    IF mt # <<>> THEN [u EXCEPT !.theory_hours = mt]
    ELSE IF ml # <<>> THEN [u EXCEPT !.lab_hours = ml]
    ELSE IF mx # <<>> THEN [u EXCEPT !.x_hours = mx]
    ELSE IF ExperimentWord(s) THEN [u EXCEPT !.experiments = Append(@, s)]
    ELSE u

\* the loop body for the stripped line s
ScanStripped(u, s) ==
    IF s = <<>> THEN u
    ELSE IF s[1] \in {"-", "*"}
    THEN [u EXCEPT !.topics = Append(@, Strip(LStripChars(s, {"-", "*", " "})))]
    ELSE ScanHours(u, s, THEORY_HOURS_RE(s), LAB_HOURS_RE(s), X_HOURS_RE(s))

\* one iteration of the loop over sec.body.splitlines()
ScanLine(u, line) == ScanStripped(u, Strip(line))

RECURSIVE ScanLines(_, _)
ScanLines(u, lines) ==
    IF lines = <<>> THEN u
    ELSE ScanLines(ScanLine(u, Head(lines)), Tail(lines))

\* the loop of extract_units from section k on; current is <<>> (None) or <<unit>>
RECURSIVE ExtractFrom(_, _, _, _)

\* one iteration in which content before the first unit heading opens a unit
\* numbered 0
ExtractStepImplicitUnit(sections, k, units, current, m) ==
    IF m # <<>>
    THEN ExtractFrom(sections, k + 1, units \o current, <<UnitBlock(m[1])>>)
    ELSE IF current = <<>>
    THEN ExtractFrom(sections, k + 1, units,
                     <<ScanLines(UnitBlock(0), SplitLines(sections[k].body))>>)
    ELSE ExtractFrom(sections, k + 1, units,
                     <<ScanLines(current[1], SplitLines(sections[k].body))>>)

\* one iteration for section k, m being UNIT_HEADER_RE.search(sec.title)
ExtractStep(sections, k, units, current, m) ==
    IF m # <<>>
    THEN ExtractFrom(sections, k + 1, units \o current, <<UnitBlock(m[1])>>)
    ELSE IF current = <<>>
    THEN ExtractFrom(sections, k + 1, units, current)
    ELSE ExtractFrom(sections, k + 1, units,
                     <<ScanLines(current[1], SplitLines(sections[k].body))>>)

ExtractFrom(sections, k, units, current) ==
    IF k > Len(sections) THEN units \o current
    ELSE ExtractStep(sections, k, units, current, UNIT_HEADER_RE(sections[k].title))

extract_units(sections) == ExtractFrom(sections, 1, <<>>, <<>>)

\* extract_project_block
extract_project_block(sections) ==
    SelectSeq(sections, LAMBDA sec : Contains(Lower(sec.title), wProject))

\* the loop of extract_project_total_hours: value of the first line that matches
RECURSIVE FirstTotalHours(_)

FirstTotalStep(lines, m) == IF m # <<>> THEN m ELSE FirstTotalHours(Tail(lines))

FirstTotalHours(lines) ==
    IF lines = <<>> THEN <<>>
    ELSE FirstTotalStep(lines, TOTAL_HOURS_RE(Strip(Head(lines))))

extract_project_total_hours(sec) == FirstTotalHours(SplitLines(sec.body))

-----------------------------------------------------------------------------
(* Stage-2b: validators.  The error of a validator is <<>> (it returned) or *)
(* <<ValidationError>> (it raised).                                        *)

\* what a validator did: its name ("" when validate_course entered none), the
\* units it extracted and the error it raised
Outcome(validator, units, error) ==
    [kind |-> "Validation", validator |-> validator, units |-> units, error |-> error]

ValidationError(code, id, info) ==
    <<[kind |-> "ValidationError", course_code |-> code, invariant_id |-> id, info |-> info]>>

Numbers(units) == [i \in DOMAIN units |-> units[i].number]

IsSorted(ns) == \A i \in 1..(Len(ns) - 1) : ns[i] <= ns[i + 1]

\* the numbering rule without its order check
check_unit_sequenceDuplicateOnly(code, units, prefix) ==
    IF Cardinality(Range(Numbers(units))) # Len(units)
    THEN ValidationError(code, prefix \o "-UNIT-DUPLICATE", <<>>)
    ELSE <<>>

_check_unit_sequence(code, units, prefix) ==
    IF Cardinality(Range(Numbers(units))) # Len(units)
    THEN ValidationError(code, prefix \o "-UNIT-DUPLICATE", <<>>)
    ELSE IF ~IsSorted(Numbers(units))
    THEN ValidationError(code, prefix \o "-UNIT-ORDER", <<>>)
    ELSE <<>>

\* the loop over the units with a final comparison that rejects only a
\* declared sum above the expected total
RECURSIVE TheoryUnitsOverOnly(_, _, _, _, _)
TheoryUnitsOverOnly(code, units, k, total, expected) ==
    IF k > Len(units)
    THEN IF total > expected
         THEN ValidationError(code, "AT-HOUR-MISMATCH", <<total, expected>>)
         ELSE <<>>
    ELSE IF units[k].experiments # <<>>
    THEN ValidationError(code, "AT-EXPERIMENT-FORBIDDEN", <<units[k].number>>)
    ELSE IF Truthy(units[k].lab_hours) \/ Truthy(units[k].x_hours)
    THEN ValidationError(code, "AT-NON-THEORY-HOURS-FORBIDDEN", <<units[k].number>>)
    ELSE IF ~(4 <= Len(units[k].topics) /\ Len(units[k].topics) <= 8)
    THEN ValidationError(code, "AT-TOPIC-CARDINALITY",
                         <<units[k].number, Len(units[k].topics)>>)
    ELSE IF units[k].theory_hours = <<>>
    THEN ValidationError(code, "AT-THEORY-HOUR-MISSING", <<units[k].number>>)
    ELSE IF IsZero(units[k].theory_hours)
    THEN ValidationError(code, "AT-THEORY-HOUR-ZERO", <<units[k].number>>)
    ELSE TheoryUnitsOverOnly(code, units, k + 1, total + total_hours(units[k]), expected)

\* the loop with the experiment rule applied to all units before any other
\* rule is applied to the first unit
RECURSIVE TheoryUnitsExperimentsFirst(_, _, _, _, _)
TheoryUnitsExperimentsFirst(code, units, k, total, expected) ==
    IF k > Len(units)
    THEN IF total # expected
         THEN ValidationError(code, "AT-HOUR-MISMATCH", <<total, expected>>)
         ELSE <<>>
    ELSE IF \E i \in k..Len(units) : units[i].experiments # <<>>
    THEN ValidationError(code, "AT-EXPERIMENT-FORBIDDEN",
                         <<units[Min({ i \in k..Len(units) : units[i].experiments # <<>> })].number>>)
    ELSE IF Truthy(units[k].lab_hours) \/ Truthy(units[k].x_hours)
    THEN ValidationError(code, "AT-NON-THEORY-HOURS-FORBIDDEN", <<units[k].number>>)
    ELSE IF ~(4 <= Len(units[k].topics) /\ Len(units[k].topics) <= 8)
    THEN ValidationError(code, "AT-TOPIC-CARDINALITY",
                         <<units[k].number, Len(units[k].topics)>>)
    ELSE IF units[k].theory_hours = <<>>
    THEN ValidationError(code, "AT-THEORY-HOUR-MISSING", <<units[k].number>>)
    ELSE IF IsZero(units[k].theory_hours)
    THEN ValidationError(code, "AT-THEORY-HOUR-ZERO", <<units[k].number>>)
    ELSE TheoryUnitsExperimentsFirst(code, units, k + 1, total + total_hours(units[k]), expected)

\* the loop over the units, from unit k on, and the final comparison
RECURSIVE TheoryUnits(_, _, _, _, _)
TheoryUnits(code, units, k, total, expected) ==
    IF k > Len(units)
    THEN IF total # expected
         THEN ValidationError(code, "AT-HOUR-MISMATCH", <<total, expected>>)
         ELSE <<>>
    ELSE IF units[k].experiments # <<>>
    THEN ValidationError(code, "AT-EXPERIMENT-FORBIDDEN", <<units[k].number>>)
    ELSE IF Truthy(units[k].lab_hours) \/ Truthy(units[k].x_hours)
    THEN ValidationError(code, "AT-NON-THEORY-HOURS-FORBIDDEN", <<units[k].number>>)
    ELSE IF ~(4 <= Len(units[k].topics) /\ Len(units[k].topics) <= 8)
    THEN ValidationError(code, "AT-TOPIC-CARDINALITY",
                         <<units[k].number, Len(units[k].topics)>>)
    ELSE IF units[k].theory_hours = <<>>
    THEN ValidationError(code, "AT-THEORY-HOUR-MISSING", <<units[k].number>>)
    ELSE IF IsZero(units[k].theory_hours)
    THEN ValidationError(code, "AT-THEORY-HOUR-ZERO", <<units[k].number>>)
    ELSE TheoryUnits(code, units, k + 1, total + total_hours(units[k]), expected)

\* validate_academic_theory once units = extract_units(sections)
TheoryChecks(code, units, expected) ==
    IF Len(units) # 5
    THEN ValidationError(code, "AT-UNIT-COUNT", <<Len(units)>>)
    ELSE IF _check_unit_sequence(code, units, "AT") # <<>>
    THEN _check_unit_sequence(code, units, "AT")
    ELSE TheoryUnits(code, units, 1, 0, expected)

TheoryOutcome(code, units, expected) ==
    Outcome("validate_academic_theory", units, TheoryChecks(code, units, expected))

validate_academic_theory(code, sections, expected) ==
    TheoryOutcome(code, extract_units(sections), expected)

\* the unit loop with lab hours tested by truth value: absent counts as 0
RECURSIVE IntegratedUnitsAbsentIsZero(_, _, _, _, _)
IntegratedUnitsAbsentIsZero(code, units, k, total, expected) ==
    IF k > Len(units)
    THEN IF total # expected
         THEN ValidationError(code, "AI-HOUR-MISMATCH", <<total, expected>>)
         ELSE <<>>
    ELSE IF units[k].experiments = <<>>
    THEN ValidationError(code, "AI-EXPERIMENT-MISSING", <<units[k].number>>)
    ELSE IF ~(1 <= Len(units[k].experiments) /\ Len(units[k].experiments) <= 4)
    THEN ValidationError(code, "AI-EXPERIMENT-COUNT", <<units[k].number>>)
    ELSE IF units[k].topics # <<>>
            /\ ~(4 <= Len(units[k].topics) /\ Len(units[k].topics) <= 8)
    THEN ValidationError(code, "AI-TOPIC-CARDINALITY", <<units[k].number>>)
    ELSE IF units[k].theory_hours = <<>> /\ units[k].lab_hours = <<>>
            /\ units[k].x_hours = <<>>
    THEN ValidationError(code, "AI-HOUR-BLOCK-MISSING", <<units[k].number>>)
    ELSE IF IsZero(units[k].theory_hours)
    THEN ValidationError(code, "AI-THEORY-HOUR-ZERO", <<units[k].number>>)
    ELSE IF ~Truthy(units[k].lab_hours)
    THEN ValidationError(code, "AI-LAB-HOUR-ZERO", <<units[k].number>>)
    ELSE IF IsZero(units[k].x_hours)
    THEN ValidationError(code, "AI-X-HOUR-ZERO", <<units[k].number>>)
    ELSE IntegratedUnitsAbsentIsZero(code, units, k + 1, total + total_hours(units[k]), expected)

\* the loop over the units of an integrated course, from unit k on
RECURSIVE IntegratedUnits(_, _, _, _, _)
IntegratedUnits(code, units, k, total, expected) ==
    IF k > Len(units)
    THEN IF total # expected
         THEN ValidationError(code, "AI-HOUR-MISMATCH", <<total, expected>>)
         ELSE <<>>
    ELSE IF units[k].experiments = <<>>
    THEN ValidationError(code, "AI-EXPERIMENT-MISSING", <<units[k].number>>)
    ELSE IF ~(1 <= Len(units[k].experiments) /\ Len(units[k].experiments) <= 4)
    THEN ValidationError(code, "AI-EXPERIMENT-COUNT", <<units[k].number>>)
    ELSE IF units[k].topics # <<>>
            /\ ~(4 <= Len(units[k].topics) /\ Len(units[k].topics) <= 8)
    THEN ValidationError(code, "AI-TOPIC-CARDINALITY", <<units[k].number>>)
    ELSE IF units[k].theory_hours = <<>> /\ units[k].lab_hours = <<>>
            /\ units[k].x_hours = <<>>
    THEN ValidationError(code, "AI-HOUR-BLOCK-MISSING", <<units[k].number>>)
    ELSE IF IsZero(units[k].theory_hours)
    THEN ValidationError(code, "AI-THEORY-HOUR-ZERO", <<units[k].number>>)
    ELSE IF IsZero(units[k].lab_hours)
    THEN ValidationError(code, "AI-LAB-HOUR-ZERO", <<units[k].number>>)
    ELSE IF IsZero(units[k].x_hours)
    THEN ValidationError(code, "AI-X-HOUR-ZERO", <<units[k].number>>)
    ELSE IntegratedUnits(code, units, k + 1, total + total_hours(units[k]), expected)

\* validate_academic_integrated once units = extract_units(sections)
IntegratedChecks(code, units, expected) ==
    IF Len(units) # 5
    THEN ValidationError(code, "AI-UNIT-COUNT", <<Len(units)>>)
    ELSE IF _check_unit_sequence(code, units, "AI") # <<>>
    THEN _check_unit_sequence(code, units, "AI")
    ELSE IntegratedUnits(code, units, 1, 0, expected)

IntegratedOutcome(code, units, expected) ==
    Outcome("validate_academic_integrated", units, IntegratedChecks(code, units, expected))

validate_academic_integrated(code, sections, expected) ==
    IntegratedOutcome(code, extract_units(sections), expected)

\* has_activity set by experiment entries only
HasActivityExperimentsOnly(has_activity, u) ==
    has_activity \/ u.experiments # <<>>

\* has_activity after the iteration for unit u
HasActivity(has_activity, u) ==
    has_activity \/ u.experiments # <<>> \/ Truthy(u.lab_hours) \/ Truthy(u.x_hours)

\* the unit loop with the total compared before the activity check
RECURSIVE SkillUnitsTotalFirst(_, _, _, _, _, _)
SkillUnitsTotalFirst(code, units, k, total, has_activity, expected) ==
    IF k > Len(units)
    THEN IF total # expected
         THEN ValidationError(code, "SP-HOUR-MISMATCH", <<total, expected>>)
         ELSE IF ~has_activity
         THEN ValidationError(code, "SP-ACTIVITY-MISSING", <<>>)
         ELSE <<>>
    ELSE IF Truthy(units[k].theory_hours)
    THEN ValidationError(code, "SP-THEORY-FORBIDDEN", <<>>)
    ELSE IF units[k].lab_hours = <<>> /\ units[k].x_hours = <<>>
    THEN ValidationError(code, "SP-PRACTICE-HOUR-MISSING", <<>>)
    ELSE IF IsZero(units[k].lab_hours)
    THEN ValidationError(code, "SP-LAB-HOUR-ZERO", <<>>)
    ELSE IF IsZero(units[k].x_hours)
    THEN ValidationError(code, "SP-X-HOUR-ZERO", <<>>)
    ELSE SkillUnitsTotalFirst(code, units, k + 1, total + total_hours(units[k]),
                    HasActivity(has_activity, units[k]), expected)

\* the loop over the units of a skill-practice course and the final checks
RECURSIVE SkillUnits(_, _, _, _, _, _)
SkillUnits(code, units, k, total, has_activity, expected) ==
    IF k > Len(units)
    THEN IF ~has_activity
         THEN ValidationError(code, "SP-ACTIVITY-MISSING", <<>>)
         ELSE IF total # expected
         THEN ValidationError(code, "SP-HOUR-MISMATCH", <<total, expected>>)
         ELSE <<>>
    ELSE IF Truthy(units[k].theory_hours)
    THEN ValidationError(code, "SP-THEORY-FORBIDDEN", <<>>)
    ELSE IF units[k].lab_hours = <<>> /\ units[k].x_hours = <<>>
    THEN ValidationError(code, "SP-PRACTICE-HOUR-MISSING", <<>>)
    ELSE IF IsZero(units[k].lab_hours)
    THEN ValidationError(code, "SP-LAB-HOUR-ZERO", <<>>)
    ELSE IF IsZero(units[k].x_hours)
    THEN ValidationError(code, "SP-X-HOUR-ZERO", <<>>)
    ELSE SkillUnits(code, units, k + 1, total + total_hours(units[k]),
                    HasActivity(has_activity, units[k]), expected)

\* validate_skill_practice once units = extract_units(sections)
SkillChecks(code, units, expected) ==
    IF units # <<>> /\ _check_unit_sequence(code, units, "SP") # <<>>
    THEN _check_unit_sequence(code, units, "SP")
    ELSE SkillUnits(code, units, 1, 0, FALSE, expected)

SkillOutcome(code, units, expected) ==
    Outcome("validate_skill_practice", units, SkillChecks(code, units, expected))

validate_skill_practice(code, sections, expected) ==
    SkillOutcome(code, extract_units(sections), expected)

\* the hour checks without the zero rule: a declared total is only compared
ProjectHourChecksNoZeroRule(code, hours, expected) ==
    IF hours = <<>>
    THEN ValidationError(code, "PR-HOUR-MISSING", <<>>)
    ELSE IF hours[1] # expected
    THEN ValidationError(code, "PR-HOUR-MISMATCH", <<hours[1], expected>>)
    ELSE <<>>

\* the checks on hours = extract_project_total_hours(project_blocks[0])
ProjectHourChecks(code, hours, expected) ==
    IF hours = <<>>
    THEN ValidationError(code, "PR-HOUR-MISSING", <<>>)
    ELSE IF IsZero(hours)
    THEN ValidationError(code, "PR-HOUR-ZERO", <<>>)
    ELSE IF hours[1] # expected
    THEN ValidationError(code, "PR-HOUR-MISMATCH", <<hours[1], expected>>)
    ELSE <<>>

\* the block check that rejects only the absence of a project section
ProjectBlockChecksAtLeastOne(code, project_blocks, expected) ==
    IF Len(project_blocks) = 0
    THEN ValidationError(code, "PR-DESCRIPTION-COUNT", <<Len(project_blocks)>>)
    ELSE ProjectHourChecks(code, extract_project_total_hours(project_blocks[1]), expected)

\* the checks on project_blocks = extract_project_block(sections)
ProjectBlockChecks(code, project_blocks, expected) ==
    IF Len(project_blocks) # 1
    THEN ValidationError(code, "PR-DESCRIPTION-COUNT", <<Len(project_blocks)>>)
    ELSE ProjectHourChecks(code, extract_project_total_hours(project_blocks[1]), expected)

\* validate_project once units = extract_units(sections)
ProjectOutcome(code, units, sections, expected) ==
    Outcome("validate_project", units,
            IF units # <<>>
            THEN ValidationError(code, "PR-UNIT-FORBIDDEN", <<>>)
            ELSE ProjectBlockChecks(code, extract_project_block(sections), expected))

validate_project(code, sections, expected) ==
    ProjectOutcome(code, extract_units(sections), sections, expected)

validate_course(code, inferred_shape, sections, ltpxtotal_hours) ==
    IF inferred_shape = VShape("academic_theory")
    THEN validate_academic_theory(code, sections, ltpxtotal_hours)
    ELSE IF inferred_shape = VShape("academic_integrated")
    THEN validate_academic_integrated(code, sections, ltpxtotal_hours)
    ELSE IF inferred_shape = VShape("skill_practice")
    THEN validate_skill_practice(code, sections, ltpxtotal_hours)
    ELSE IF inferred_shape = VShape("project")
    THEN validate_project(code, sections, ltpxtotal_hours)
    ELSE Outcome("", <<>>, ValidationError(code, "SHAPE-UNKNOWN", <<inferred_shape.value>>))

-----------------------------------------------------------------------------
(* Stage-1: the Markdown tokenizer of read_courses                          *)

SpaceChars == {" ", "\t", "\n"}

\* str.lstrip()
LStrip(s) == LStripChars(s, SpaceChars)

\* number of leading characters of s that equal c
RunLength(s, c) ==
    IF \E j \in DOMAIN s : s[j] # c
    THEN (CHOOSE j \in DOMAIN s : s[j] # c /\ \A h \in 1..(j - 1) : s[h] = c) - 1
    ELSE Len(s)

\* read_courses.MarkdownSection
LeveledSection(level, title, body) == [level |-> level, title |-> title, body |-> body]

PREAMBLE_TITLE == <<"_","_","P","R","E","A","M","B","L","E","_","_">>

\* the backtick character, which a TLA+ string cannot hold, as an element of
\* a character sequence
Backtick == "BACKTICK"

\* the line starts with three backticks or three tildes
IsFenceLine(stripped) ==
    \/ StartsAt(stripped, 1, <<Backtick, Backtick, Backtick>>)
    \/ StartsAt(stripped, 1, <<"~","~","~">>)

\* the full fence run at the start of a fence line
FenceRun(stripped) == SubSeq(stripped, 1, RunLength(stripped, stripped[1]))

\* the loop state before the first line; code_fence None is <<>>
SplitStart ==
    [sections |-> <<>>, level |-> 0, title |-> PREAMBLE_TITLE, body |-> <<>>,
     in_code_block |-> FALSE, code_fence |-> <<>>]

\* sections.append(MarkdownSection(current_level, current_title, joined body))
Flush(st) ==
    Append(st.sections, LeveledSection(st.level, st.title, Strip(JoinLines(st.body))))

\* a fence line that closes a block whenever its character is that of the
\* opening fence, whatever the lengths of the two runs
FenceStepSameCharacter(st, line, fence) ==
    IF ~st.in_code_block
    THEN [st EXCEPT !.in_code_block = TRUE, !.code_fence = fence, !.body = Append(@, line)]
    ELSE IF fence[1] = st.code_fence[1]
    THEN [st EXCEPT !.in_code_block = FALSE, !.code_fence = <<>>, !.body = Append(@, line)]
    ELSE [st EXCEPT !.body = Append(@, line)]

\* a fence line: opens a block, closes the block its fence opened, or is content
FenceStep(st, line, fence) ==
    IF ~st.in_code_block
    THEN [st EXCEPT !.in_code_block = TRUE, !.code_fence = fence, !.body = Append(@, line)]
    ELSE IF fence = st.code_fence
    THEN [st EXCEPT !.in_code_block = FALSE, !.code_fence = <<>>, !.body = Append(@, line)]
    ELSE [st EXCEPT !.body = Append(@, line)]

\* a line that starts with i '#' outside a code block
HeaderStep(st, line, stripped, i) ==
    IF i > 0 /\ i < Len(stripped) /\ stripped[i + 1] = " "
       /\ Strip(SubSeq(stripped, i + 2, Len(stripped))) # <<>>
    THEN [st EXCEPT !.sections = Flush(st), !.level = i,
                    !.title = Strip(SubSeq(stripped, i + 2, Len(stripped))),
                    !.body = <<>>]
    ELSE [st EXCEPT !.body = Append(@, line)]

\* the loop body with headers detected inside code blocks as well
SplitStepIgnoringFences(st, line, stripped) ==
    IF IsFenceLine(stripped) THEN FenceStep(st, line, FenceRun(stripped))
    ELSE IF stripped # <<>> /\ stripped[1] = "#"
    THEN HeaderStep(st, line, stripped, RunLength(stripped, "#"))
    ELSE [st EXCEPT !.body = Append(@, line)]

\* one iteration of the loop over the lines, stripped being line.lstrip()
SplitStep(st, line, stripped) ==
    IF IsFenceLine(stripped) THEN FenceStep(st, line, FenceRun(stripped))
    ELSE IF ~st.in_code_block /\ stripped # <<>> /\ stripped[1] = "#"
    THEN HeaderStep(st, line, stripped, RunLength(stripped, "#"))
    ELSE [st EXCEPT !.body = Append(@, line)]

RECURSIVE SplitLoop(_, _)
SplitLoop(st, lines) ==
    IF lines = <<>> THEN st
    ELSE SplitLoop(SplitStep(st, Head(lines), LStrip(Head(lines))), Tail(lines))

\* the locals with the fence state taken over from the call before
SplitEntryKeepingFence(previous) ==
    [SplitStart EXCEPT !.in_code_block = previous.in_code_block,
                       !.code_fence = previous.code_fence]

\* the locals a call starts with: every call builds its own, whatever the
\* locals of the previous call (previous) ended as
SplitEntry(previous) == SplitStart

\* the locals at the end of the loop of a call on md_text
SplitRun(previous, md_text) == SplitLoop(SplitEntry(previous), SplitLines(md_text))

\* the preamble is kept also when its body is empty
FilterPreambleKeepingEmpty(sections) == sections

\* the empty preamble is dropped
FilterPreamble(sections) ==
    IF sections # <<>> /\ sections[1].title = PREAMBLE_TITLE /\ sections[1].body = <<>>
    THEN Tail(sections)
    ELSE sections

split_markdown_sections(md_text) ==
    FilterPreamble(Flush(SplitLoop(SplitStart, SplitLines(md_text))))

-----------------------------------------------------------------------------
(* Stage-2c: content block grammar                                          *)

\* validate_topic_grammar: the topics of unit u from topic idx on, then the
\* units after unit k
RECURSIVE TopicGrammarFrom(_, _, _, _)
TopicGrammarFrom(code, units, k, idx) ==
    IF k > Len(units) THEN <<>>
    ELSE IF idx > Len(units[k].topics) THEN TopicGrammarFrom(code, units, k + 1, 1)
    ELSE IF ":" \notin Range(units[k].topics[idx])
    THEN ValidationError(code, "TG-COLON-MISSING", <<units[k].number, idx>>)
    ELSE TopicGrammarFrom(code, units, k, idx + 1)

validate_topic_grammar(code, units) == TopicGrammarFrom(code, units, 1, 1)

\* validate_experiment_blocks
RECURSIVE ExperimentBlocksFrom(_, _, _, _)
ExperimentBlocksFrom(code, units, k, idx) ==
    IF k > Len(units) THEN <<>>
    ELSE IF idx > Len(units[k].experiments) THEN ExperimentBlocksFrom(code, units, k + 1, 1)
    ELSE IF Strip(units[k].experiments[idx]) = <<>>
    THEN ValidationError(code, "EXP-TITLE-MISSING", <<units[k].number, idx>>)
    ELSE ExperimentBlocksFrom(code, units, k, idx + 1)

validate_experiment_blocks(code, units) == ExperimentBlocksFrom(code, units, 1, 1)

\* the activity rule applied to every unit that declares activity hours, a
\* declared 0 included
RECURSIVE XActivityDeclaredFrom(_, _, _)
XActivityDeclaredFrom(code, units, k) ==
    IF k > Len(units) THEN <<>>
    ELSE IF units[k].x_hours # <<>> /\ units[k].experiments = <<>>
    THEN ValidationError(code, "XG-ACTIVITY-MISSING", <<units[k].number>>)
    ELSE XActivityDeclaredFrom(code, units, k + 1)

\* validate_x_activity_blocks, from unit k on
RECURSIVE XActivityFrom(_, _, _)
XActivityFrom(code, units, k) ==
    IF k > Len(units) THEN <<>>
    ELSE IF Truthy(units[k].x_hours) /\ units[k].experiments = <<>>
    THEN ValidationError(code, "XG-ACTIVITY-MISSING", <<units[k].number>>)
    ELSE XActivityFrom(code, units, k + 1)

validate_x_activity_blocks(code, units) == XActivityFrom(code, units, 1)

\* the three validators in the order of the dispatcher; the first error ends it
ContentBlockChecks(code, units) ==
    IF validate_topic_grammar(code, units) # <<>>
    THEN validate_topic_grammar(code, units)
    ELSE IF validate_experiment_blocks(code, units) # <<>>
    THEN validate_experiment_blocks(code, units)
    ELSE validate_x_activity_blocks(code, units)

validate_content_blocks(code, sections, units) ==
    Outcome("validate_content_blocks", units, ContentBlockChecks(code, units))

-----------------------------------------------------------------------------
(* Inputs of the validation calls: lines, section titles, documents         *)

lnTopicA == <<"-"," ","S","i","g","n","a","l","s",":"," ","C","T",","," ","D","T">>   \* - Signals: CT, DT
lnTopicB == <<"*"," ","S","y","s","t","e","m","s",":"," ","L","T","I">>   \* * Systems: LTI
lnTopicC == <<"-"," ","F","o","u","r","i","e","r",":">>   \* - Fourier:
lnTopicD == <<" "," ","-"," ","S","a","m","p","l","i","n","g">>   \*   - Sampling
lnTheory15 == <<"T","h","e","o","r","y"," ","H","o","u","r","s",":"," ","1","5">>   \* Theory Hours: 15
lnTheory12 == <<"L","e","c","t","u","r","e"," ","h","o","u","r","s"," ","1","2">>   \* Lecture hours 12
lnTheory0 == <<"t","h","e","o","r","y"," ","h","o","u","r",":"," ","0">>   \* theory hour: 0
lnLab0 == <<"L","a","b"," ","H","o","u","r","s",":"," ","0">>   \* Lab Hours: 0
lnLab3 == <<"P","r","a","c","t","i","c","a","l"," ","h","o","u","r","s"," ","-"," ","3">>   \* Practical hours - 3
lnX2 == <<"X"," ","H","o","u","r","s",":"," ","2">>   \* X Hours: 2
lnX12 == <<"A","c","t","i","v","i","t","y"," ","H","o","u","r","s"," ","-"," ","1","2">>   \* Activity Hours - 12
lnX0 == <<"A","c","t","i","v","i","t","y"," ","h","o","u","r","s",":"," ","0">>   \* Activity hours: 0
lnLab15 == <<"L","a","b"," ","h","o","u","r","s",":"," ","1","5">>   \* Lab hours: 15
lnExperiment == <<"E","x","p","e","r","i","m","e","n","t"," ","1",":"," ","R","C"," ","f","i","l","t","e","r">>   \* Experiment 1: RC filter
lnTotal75 == <<"T","o","t","a","l"," ","H","o","u","r","s",":"," ","7","5">>   \* Total Hours: 75
lnTotal0 == <<"t","o","t","a","l"," ","h","o","u","r","s"," ","0">>   \* total hours 0
lnBulletHours == <<"-"," ","T","h","e","o","r","y"," ","H","o","u","r","s",":"," ","9">>   \* - Theory Hours: 9
lnProse == <<"T","a","u","g","h","t"," ","i","n"," ","t","e","r","m"," ","3">>   \* Taught in term 3
lnBulletLab == <<"*"," ","L","a","b"," ","e","x","p","e","r","i","m","e","n","t"," ","2">>   \* * Lab experiment 2
lnTheoryLab == <<"T","h","e","o","r","y"," ","h","o","u","r","s"," ","3",","," ","l","a","b"," ","h","o","u","r","s"," ","2">>   \* Theory hours 3, lab hours 2
lnXLab == <<"A","c","t","i","v","i","t","y"," ","h","o","u","r","s",":"," ","4"," ","i","n"," ","l","a","b">>   \* Activity hours: 4 in lab
ttUnit1 == <<"U","n","i","t"," ","1">>   \* Unit 1
ttUnit2 == <<"U","N","I","T","-","2",":"," ","S","i","g","n","a","l","s">>   \* UNIT-2: Signals
ttUnit3 == <<"U","n","i","t"," ","3",":"," ","S","y","s","t","e","m","s">>   \* Unit 3: Systems
ttUnit4 == <<"u","n","i","t"," ","4">>   \* unit 4
ttUnit5 == <<"U","n","i","t",":"," ","5"," ","-"," ","F","i","l","t","e","r","s">>   \* Unit: 5 - Filters
ttTopics == <<"T","o","p","i","c","s">>   \* Topics
ttSubunit == <<"S","u","b","u","n","i","t"," ","3">>   \* Subunit 3
ttProject == <<"M","i","n","i"," ","P","r","o","j","e","c","t">>   \* Mini Project
ttProjectWork == <<"P","R","O","J","E","C","T"," ","W","O","R","K">>   \* PROJECT WORK
ttOutcomes == <<"C","o","u","r","s","e"," ","O","u","t","c","o","m","e","s">>   \* Course Outcomes

Body(lines) == JoinLines(lines)

\* bodies a unit can carry in a five-unit document
PlainBody == Body(<<lnTopicA, lnTopicB, lnTopicC, lnTopicD, lnTheory15>>)
UnitBodies == {
    PlainBody,
    Body(<<lnTopicA, lnProse, lnTopicB, lnTopicC, lnTopicD, lnTopicA, lnTheory12>>) }

SpecialBodies == {
    Body(<<lnTopicA, lnTopicB, lnTopicC, lnTheory15>>),
    Body(<<lnTopicA, lnTopicB, lnTopicC, lnTopicD, lnTheory15, lnExperiment>>),
    Body(<<lnTopicA, lnTopicB, lnTopicC, lnTopicD, lnTheory15, lnLab0>>),
    Body(<<lnTopicA, lnTopicB, lnTopicC, lnTopicD, lnTheory12, lnLab3>>),
    Body(<<lnTopicA, lnTopicB, lnTopicC, lnTopicD, lnTheory0>>),
    Body(<<lnTopicA, lnTopicB, lnTopicC, lnTopicD>>),
    Body(<<lnLab3, lnX2, lnExperiment>>) }

\* per-unit bodies of a five-unit document: every unit a plain body, or the
\* first plain body everywhere but in one or two units
PlainVectors == [1..5 -> UnitBodies]

SpecialVectors ==
    { [k \in 1..5 |-> IF k = i THEN b ELSE PlainBody] : i \in 1..5, b \in SpecialBodies }
    \cup
    { [k \in 1..5 |-> IF k = p[1] THEN b ELSE IF k = p[2] THEN c ELSE PlainBody] :
        p \in { <<1, 2>>, <<2, 5>> }, b \in SpecialBodies, c \in SpecialBodies }

UnitTitles == <<ttUnit1, ttUnit2, ttUnit3, ttUnit4, ttUnit5>>

\* headings of the five units, in document order
HeadingOrders == { <<1, 2, 3, 4, 5>>, <<1, 2, 2, 4, 5>>, <<1, 3, 2, 4, 5>> }

\* "sub": each unit heading has an empty body and is followed by a "Topics"
\* section that carries the unit's lines; "own": the lines are the body of the
\* unit heading's own section
RECURSIVE Doc5From(_, _, _, _)
Doc5From(order, bodies, layout, k) ==
    IF k > 5 THEN <<>>
    ELSE (IF layout = "own"
          THEN <<MarkdownSection(UnitTitles[order[k]], bodies[k])>>
          ELSE <<MarkdownSection(UnitTitles[order[k]], <<>>),
                 MarkdownSection(ttTopics, bodies[k])>>)
         \o Doc5From(order, bodies, layout, k + 1)

FiveUnitDocs ==
    { Doc5From(<<1, 2, 3, 4, 5>>, b, "sub", 1) : b \in PlainVectors \cup SpecialVectors }
    \cup
    { Doc5From(<<1, 2, 3, 4, 5>>, b, "own", 1) : b \in PlainVectors }
    \cup
    { Doc5From(o, [k \in 1..5 |-> b], "sub", 1) :
        o \in HeadingOrders, b \in UnitBodies \cup SpecialBodies }

\* bodies of a unit of an integrated course: topics, an experiment and hours
\* that are declared, declared as 0 or absent
IntegratedBody == Body(<<lnTopicA, lnTopicB, lnTopicC, lnTopicD, lnTheory15, lnExperiment>>)
IntegratedBodies == {
    Body(<<lnTopicA, lnTopicB, lnTopicC, lnTopicD, lnTheory15, lnLab0, lnExperiment>>),
    Body(<<lnTopicA, lnTopicB, lnTopicC, lnTopicD, lnTheory0, lnExperiment>>),
    Body(<<lnTopicA, lnTopicB, lnTopicC, lnTopicD, lnTheory15, lnX0, lnExperiment>>),
    Body(<<lnTopicA, lnTopicB, lnTopicC, lnTopicD, lnExperiment>>),
    Body(<<lnTopicA, lnTopicB, lnTopicC, lnTopicD, lnLab15, lnExperiment>>),
    Body(<<lnTopicA, lnTopicB, lnTopicC, lnTopicD, lnLab0, lnExperiment>>),
    Body(<<lnTopicA, lnTopicB, lnTopicC, lnTopicD, lnTheory0, lnLab0, lnExperiment>>),
    Body(<<lnTopicA, lnTopicB, lnTopicC, lnTopicD, lnX2, lnExperiment>>) }

\* five units with the integrated body, one of them replaced
IntegratedDocs ==
    { Doc5From(<<1, 2, 3, 4, 5>>, [k \in 1..5 |-> IF k = i THEN b ELSE IntegratedBody],
               "sub", 1) : i \in {1, 4}, b \in IntegratedBodies }

\* bodies of a unit of a skill-practice course
SkillBody == Body(<<lnLab15>>)
SkillBodies == {
    SkillBody,
    Body(<<lnLab3, lnX12>>),
    Body(<<lnX2>>),
    Body(<<lnLab15, lnX0>>),
    Body(<<lnTheory0, lnLab15>>) }

\* five units with the skill-practice body, the second one replaced
SkillDocs ==
    { Doc5From(<<1, 2, 3, 4, 5>>, [k \in 1..5 |-> IF k = 2 THEN b ELSE SkillBody], "sub", 1) :
        b \in SkillBodies }

\* bodies that break several rules of the theory shape at once
OrderBodies == {
    Body(<<lnLab3>>),
    Body(<<lnTopicA>>),
    Body(<<lnTopicA, lnTheory0>>),
    Body(<<lnTopicA, lnTopicB, lnTopicC, lnTopicD, lnTheory0, lnLab3>>) }

\* five units with the plain body, the third one replaced
OrderDocs ==
    { Doc5From(<<1, 2, 3, 4, 5>>, [k \in 1..5 |-> IF k = 3 THEN b ELSE PlainBody], "sub", 1) :
        b \in OrderBodies }

\* sections of the short documents
FreeSections == {
    MarkdownSection(ttUnit1, Body(<<lnTopicA, lnTheory15, lnExperiment>>)),
    MarkdownSection(ttUnit2, <<>>),
    MarkdownSection(ttTopics, Body(<<lnTopicA, lnBulletHours, lnLab0, lnX2>>)),
    MarkdownSection(ttOutcomes, Body(<<lnLab3, lnTheory12, lnTheory15, lnExperiment>>)),
    MarkdownSection(ttSubunit, Body(<<lnExperiment, lnTopicB>>)),
    MarkdownSection(ttProject, Body(<<lnProse, lnTotal75, lnTotal0>>)),
    MarkdownSection(ttProjectWork, Body(<<lnTotal0>>)),
    MarkdownSection(ttProject, Body(<<lnProse>>)),
    MarkdownSection(ttTopics, Body(<<lnBulletLab, lnTheoryLab, lnXLab>>)) }

MaxSections == 2

SeqsUpTo(S, n) == UNION { [1..m -> S] : m \in 0..n }

FreeDocs == SeqsUpTo(FreeSections, MaxSections)

Documents == FreeDocs \cup FiveUnitDocs \cup IntegratedDocs \cup SkillDocs \cup OrderDocs

ExpectedHours == { 75, 60, 0 }

\* units handed to validate_content_blocks: as extract_units builds them from
\* lines, and with an experiment entry that is empty or blank
lnBlank == <<" "," ">>

ContentUnits == {
    ScanLines(UnitBlock(1), <<lnTopicA, lnTopicB, lnExperiment, lnX2>>),
    ScanLines(UnitBlock(2), <<lnTopicA, lnTopicD>>),
    ScanLines(UnitBlock(3), <<lnTopicA, lnTopicC, lnTheory15>>),
    [ScanLines(UnitBlock(4), <<lnTopicB, lnX2>>) EXCEPT !.experiments = <<lnExperiment, lnBlank>>],
    ScanLines(UnitBlock(5), <<lnTopicB, lnX2>>),
    ScanLines(UnitBlock(6), <<lnTopicA, lnX0>>),
    ScanLines(UnitBlock(7), <<lnLab3>>),
    [ScanLines(UnitBlock(8), <<lnTopicD, lnX2>>) EXCEPT !.experiments = << <<>> >>] }

MaxUnits == 2

ContentUnitLists == SeqsUpTo(ContentUnits, MaxUnits)

\* lines of the Markdown texts handed to split_markdown_sections
mdHeading1 == <<"#"," ","U","n","i","t"," ","1">>   \* # Unit 1
mdHeading2 == <<" "," ","#","#"," ","T","o","p","i","c","s"," "," ">>   \*   ## Topics  (indented, spaces at the end)
mdNoTitle == <<"#","#","#"," ">>   \* ### (a space, no title)
mdFence3 == <<Backtick, Backtick, Backtick>>   \* a fence of three backticks
mdFence4 == <<"~","~","~","~","p","y">>   \* ~~~~py
mdBlank == <<>>

MarkdownLines == { mdHeading1, mdHeading2, mdNoTitle, mdFence3, mdFence4, mdBlank }

MaxLines == 4

MarkdownTexts == { JoinLines(lines) : lines \in SeqsUpTo(MarkdownLines, MaxLines) }

-----------------------------------------------------------------------------
(* The state machine: one pipeline run for one course.  The inference      *)
(* module is imported, then either the course is classified and the        *)
(* inferred shape is handed to validate_course, or validate_course is      *)
(* called with a shape the caller holds.                                   *)

Call(fn, args) == [kind |-> "Call", fn |-> fn, args |-> args]

Init ==
    /\ pc = "import"
    /\ call = None
    /\ ret = None
    /\ frame = None

\* import infer_content_shape: the module body runs the guard assertion once
ImportInferModule ==
    /\ pc = "import"
    /\ pc' = IF PolicyGuard THEN "ready" ELSE "import_failed"
    /\ UNCHANGED <<call, ret, frame>>

\* infer_content_shape(inp)
Infer ==
    /\ pc = "ready"
    /\ \E code \in CourseCodes, title \in TitleInputs,
          cat \in CategoryInputs, ctype \in TypeInputs :
          LET i == InferenceInput(code, title, cat, ctype)
          IN  /\ call' = Call("infer_content_shape", i)
              /\ ret' = infer_content_shape(i)
    /\ pc' = "inferred"
    /\ UNCHANGED frame

ValidateArgs(code, shape, sections, hours) ==
    [course_code |-> code, inferred_shape |-> shape, sections |-> sections,
     ltpxtotal_hours |-> hours]

\* validate_course(code, shape, sections, hours) with a member of the
\* validator's own ContentShape
ValidateCourse ==
    /\ pc = "ready"
    /\ \E code \in CourseCodes, shape \in VContentShape,
          sections \in Documents, hours \in ExpectedHours :
          /\ call' = Call("validate_course", ValidateArgs(code, shape, sections, hours))
          /\ ret' = validate_course(code, shape, sections, hours)
    /\ pc' = "validated"
    /\ UNCHANGED frame

\* the pipeline hand-off: validate_course is given the inferred_shape of the
\* InferenceResult that infer_content_shape returned
ValidateInferred ==
    /\ pc = "inferred"
    /\ ret.kind = "InferenceResult"
    /\ \E sections \in Documents, hours \in ExpectedHours :
          /\ call' = Call("validate_course",
                          ValidateArgs(ret.course_code, ret.inferred_shape, sections, hours))
          /\ ret' = validate_course(ret.course_code, ret.inferred_shape, sections, hours)
    /\ pc' = "validated"
    /\ UNCHANGED frame

ContentArgs(code, sections, units) ==
    [course_code |-> code, sections |-> sections, units |-> units]

\* validate_content_blocks(code, sections, units) on a list of units
ValidateContentBlocks ==
    /\ pc = "ready"
    /\ \E code \in CourseCodes, units \in ContentUnitLists :
          /\ call' = Call("validate_content_blocks", ContentArgs(code, <<>>, units))
          /\ ret' = validate_content_blocks(code, <<>>, units)
    /\ pc' = "blocks_validated"
    /\ UNCHANGED frame

\* validate_content_blocks on the units that extract_units gives for a document
ValidateExtractedBlocks ==
    /\ pc = "ready"
    /\ \E code \in CourseCodes, sections \in Documents :
          /\ call' = Call("validate_content_blocks",
                          ContentArgs(code, sections, extract_units(sections)))
          /\ ret' = validate_content_blocks(code, sections, extract_units(sections))
    /\ pc' = "blocks_validated"
    /\ UNCHANGED frame

\* split_markdown_sections(md_text)
SplitMarkdownSections ==
    /\ pc = "ready"
    /\ \E md_text \in MarkdownTexts :
          /\ call' = Call("split_markdown_sections", [md_text |-> md_text])
          /\ ret' = [kind |-> "Sections", sections |-> split_markdown_sections(md_text)]
    /\ pc' = "split"
    /\ UNCHANGED frame

Next ==
    \/ ImportInferModule
    \/ Infer
    \/ ValidateCourse
    \/ ValidateInferred
    \/ ValidateContentBlocks
    \/ ValidateExtractedBlocks
    \/ SplitMarkdownSections

Spec == Init /\ [][Next]_vars

-----------------------------------------------------------------------------
(* Stage-1 and the batch loops: the tokenizer on texts with fences, the     *)
(* run of read_courses (load_courses, then write_master_course_tex), and    *)
(* the loops over the course files of process_courses_md.main and           *)
(* process_courses.main.                                                    *)

\* lines of the texts with fenced blocks
mdFenceLong == <<Backtick, Backtick, Backtick, Backtick>>   \* a fence of four backticks
mdTilde3 == <<"~","~","~">>   \* ~~~

FencedLines == { mdFence3, mdFenceLong, mdTilde3, mdHeading1, lnBlank, lnProse }

FencedTexts == { JoinLines(lines) : lines \in SeqsUpTo(FencedLines, MaxLines) }

\* a course file: its text, or a file whose read_text raises
File(text) == [readable |-> TRUE, text |-> text]
Unreadable == [readable |-> FALSE, text |-> <<>>]

\* texts of the course files of a batch; the second leaves a fence open
mdUnitText == JoinLines(<<mdHeading1, lnProse>>)
mdOpenFenceText == JoinLines(<<mdFence3, lnProse>>)
mdPreambleText == JoinLines(<<lnProse, mdHeading2>>)

BatchTexts == { mdUnitText, mdOpenFenceText, mdPreambleText }

BatchFiles == { Unreadable } \cup { File(t) : t \in BatchTexts }

MaxCourses == 3

\* the files of a batch in the order of the listing; the course code of a
\* file is its position (read_course_index returns a non-empty list of
\* distinct codes)
Batches == UNION { [1..n -> BatchFiles] : n \in 1..MaxCourses }

CourseError(code, stage, message) ==
    [course_code |-> code, stage |-> stage, message |-> message]

Stage1Init ==
    /\ pc = "idle"
    /\ call = None
    /\ ret = None
    /\ frame = None

\* split_markdown_sections(md_text) on a text with fences
SplitFencedText ==
    /\ pc = "idle"
    /\ \E md_text \in FencedTexts :
          /\ call' = Call("split_markdown_sections", [md_text |-> md_text])
          /\ ret' = [kind |-> "Sections", sections |-> split_markdown_sections(md_text)]
    /\ pc' = "split"
    /\ UNCHANGED frame

\* load_courses up to its loop
LoadCoursesBegin ==
    /\ pc = "idle"
    /\ \E files \in Batches :
          call' = Call("load_courses",
                       [course_codes |-> [i \in DOMAIN files |-> i], files |-> files])
    /\ frame' = [i |-> 1, loaded |-> <<>>, errors |-> <<>>]
    /\ pc' = "load_loop"
    /\ UNCHANGED ret

\* the body of the loop of load_courses for the course code and its file
LoadStep(fr, code, file) ==
    IF file.readable
    THEN [fr EXCEPT !.i = @ + 1, !.loaded = Append(@, <<code, file.text>>)]
    ELSE [fr EXCEPT !.i = @ + 1,
                    !.errors = Append(@, CourseError(code, "load", "read_text raised"))]

LoadCourse ==
    /\ pc = "load_loop"
    /\ frame.i <= Len(call.args.course_codes)
    /\ frame' = LoadStep(frame, call.args.course_codes[frame.i], call.args.files[frame.i])
    /\ UNCHANGED <<pc, call, ret>>

\* return loaded, errors, len(course_codes)
LoadCoursesReturn ==
    /\ pc = "load_loop"
    /\ frame.i > Len(call.args.course_codes)
    /\ ret' = [kind |-> "Loaded", loaded |-> frame.loaded, errors |-> frame.errors,
               total |-> Len(call.args.course_codes)]
    /\ frame' = None
    /\ pc' = "loaded"
    /\ UNCHANGED call

\* read_courses __main__: no course loaded, SystemExit(1)
AbortNoCourses ==
    /\ pc = "loaded"
    /\ ret.loaded = <<>>
    /\ pc' = "exited"
    /\ UNCHANGED <<call, ret, frame>>

\* write_master_course_tex(courses=loaded) up to its loop; tokenizer holds
\* the locals the last call of split_markdown_sections ended with
WriteMasterBegin ==
    /\ pc = "loaded"
    /\ ret.loaded # <<>>
    /\ call' = Call("write_master_course_tex", [courses |-> ret.loaded])
    /\ frame' = [c_idx |-> 1, written |-> <<>>, tokenizer |-> SplitStart]
    /\ pc' = "write_loop"
    /\ UNCHANGED ret

\* the body of the loop over courses.items(): the course is tokenized and its
\* sections are written; end is the state the tokenizer loop ended in
WriteStep(fr, course, end) ==
    [fr EXCEPT !.c_idx = @ + 1,
               !.tokenizer = end,
               !.written = Append(@, [code |-> course[1], md_text |-> course[2],
                                      sections |-> FilterPreamble(Flush(end))])]

WriteCourse ==
    /\ pc = "write_loop"
    /\ frame.c_idx <= Len(call.args.courses)
    /\ frame' = WriteStep(frame, call.args.courses[frame.c_idx],
                          SplitRun(frame.tokenizer, call.args.courses[frame.c_idx][2]))
    /\ UNCHANGED <<pc, call, ret>>

WriteMasterReturn ==
    /\ pc = "write_loop"
    /\ frame.c_idx > Len(call.args.courses)
    /\ ret' = [kind |-> "MasterTex", courses |-> frame.written]
    /\ frame' = None
    /\ pc' = "written"
    /\ UNCHANGED call

\* process_courses_md.main from the loop over the course files on
ProcessMdBegin ==
    /\ pc = "idle"
    /\ \E files \in Batches : call' = Call("process_courses_md.main", [files |-> files])
    /\ frame' = [i |-> 1, courses |-> <<>>, all_errors |-> <<>>]
    /\ pc' = "md_loop"
    /\ UNCHANGED ret

\* the body of the loop: the file is read, parsed and built into a course, or
\* the exception is recorded; built tells whether parse_markdown,
\* extract_course_header and build_course, which are not modelled, return
MdStep(fr, file, built) ==
    IF file.readable /\ built
    THEN [fr EXCEPT !.i = @ + 1, !.courses = Append(@, fr.i)]
    ELSE [fr EXCEPT !.i = @ + 1,
                    !.all_errors = Append(@, <<fr.i, IF file.readable THEN "SyllabusError"
                                                     ELSE "Unexpected error">>)]

ProcessMdFile ==
    /\ pc = "md_loop"
    /\ frame.i <= Len(call.args.files)
    /\ \E built \in BOOLEAN : frame' = MdStep(frame, call.args.files[frame.i], built)
    /\ UNCHANGED <<pc, call, ret>>

\* the final report; the exit code is 1 when an error was collected
ProcessMdEnd ==
    /\ pc = "md_loop"
    /\ frame.i > Len(call.args.files)
    /\ ret' = [kind |-> "MdRun", courses |-> frame.courses, all_errors |-> frame.all_errors,
               exit_code |-> IF frame.all_errors # <<>> THEN 1 ELSE 0]
    /\ frame' = None
    /\ pc' = "md_done"
    /\ UNCHANGED call

\* process_courses.main up to its loop over the course files
ProcessTexBegin ==
    /\ pc = "idle"
    /\ \E files \in Batches : call' = Call("process_courses.main", [files |-> files])
    /\ frame' = [i |-> 1, courses |-> <<>>]
    /\ pc' = "tex_loop"
    /\ UNCHANGED ret

\* the body of the loop: parse_course, which is not modelled, returns for a
\* file that can be read, and the course is appended
ProcessTexFile ==
    /\ pc = "tex_loop"
    /\ frame.i <= Len(call.args.files)
    /\ call.args.files[frame.i].readable
    /\ frame' = [frame EXCEPT !.i = @ + 1, !.courses = Append(@, frame.i)]
    /\ UNCHANGED <<pc, call, ret>>

\* the body of the loop: parse_course raises (it does for a file that cannot
\* be read, it may for any other), the error is printed and sys.exit(1) ends
\* the run
ProcessTexExit ==
    /\ pc = "tex_loop"
    /\ frame.i <= Len(call.args.files)
    /\ ret' = [kind |-> "TexRun", courses |-> frame.courses, attempted |-> frame.i,
               exit_code |-> 1]
    /\ frame' = None
    /\ pc' = "tex_exited"
    /\ UNCHANGED call

\* the loop ended: "All courses parsed successfully."
ProcessTexParsed ==
    /\ pc = "tex_loop"
    /\ frame.i > Len(call.args.files)
    /\ ret' = [kind |-> "TexRun", courses |-> frame.courses,
               attempted |-> Len(call.args.files), exit_code |-> 0]
    /\ frame' = None
    /\ pc' = "tex_parsed"
    /\ UNCHANGED call

Stage1Next ==
    \/ SplitFencedText
    \/ LoadCoursesBegin
    \/ LoadCourse
    \/ LoadCoursesReturn
    \/ AbortNoCourses
    \/ WriteMasterBegin
    \/ WriteCourse
    \/ WriteMasterReturn
    \/ ProcessMdBegin
    \/ ProcessMdFile
    \/ ProcessMdEnd
    \/ ProcessTexBegin
    \/ ProcessTexFile
    \/ ProcessTexExit
    \/ ProcessTexParsed

Stage1Spec == Stage1Init /\ [][Stage1Next]_vars

-----------------------------------------------------------------------------
(* Properties of Stage-2a                                                   *)

Args == call.args

\* the rules whose predicate holds of the arguments of the inference call
MatchedNow == Matched(Args.category, Args.course_type, Args.course_title)

EnumMembers == Args.category \in CourseCategory /\ Args.course_type \in CourseType

PolicyKey == <<Args.category, Args.course_type>>

\* titles of TitleInputs that hold a capstone keyword in some letter case
KeywordTitles == { tCapstoneProject, tMajorProject, tCapstoneMixed, tProjectiles }

\* C1: the override rules are evaluated before the policy table.  When exactly
\* one rule matches, the result carries that rule's shape and the source
\* "override:<rule name>", also when the table holds an entry for the pair;
\* (PCM, PC) with a capstone keyword in the title, in any letter case, yields
\* project and not the table's academic_integrated.
C1_OverridePrecedesPolicy ==
    (pc = "inferred" /\ EnumMembers) =>
        /\ Len(MatchedNow) = 1 =>
              /\ ret.kind = "InferenceResult"
              /\ ret.inferred_shape = MatchedNow[1].shape
              /\ ret.rule_source = <<"override:", MatchedNow[1].name>>
        /\ (Args.category = Cat("PCM") /\ Args.course_type = Typ("PC")
               /\ Args.course_title \in KeywordTitles) =>
              /\ ret.kind = "InferenceResult"
              /\ ret.inferred_shape = Shape("project")
              /\ ret.rule_source = <<"override:", "Capstone Project (PCM)">>

C1_Witness ==
    /\ pc = "inferred"
    /\ Args.category = Cat("PCM") /\ Args.course_type = Typ("PC")
    /\ Args.course_title = tMajorProject
    /\ CONTENT_SHAPE_POLICY[PolicyKey] = Shape("academic_integrated")
    /\ ret.kind = "InferenceResult"
    /\ ret.inferred_shape = Shape("project")

\* C2: for a pair that is a key of the policy table and a title such that no
\* override predicate holds, the result is the table's shape for the pair with
\* rule_source "policy".
C2_PolicyWhenNoOverride ==
    (pc = "inferred" /\ PolicyKey \in DOMAIN CONTENT_SHAPE_POLICY
        /\ \A n \in DOMAIN OVERRIDE_RULES :
              ~Predicate(OVERRIDE_RULES[n].name, Args.category, Args.course_type,
                         Args.course_title)) =>
        /\ ret.kind = "InferenceResult"
        /\ ret.inferred_shape = CONTENT_SHAPE_POLICY[PolicyKey]
        /\ ret.rule_source = <<"policy">>

C2_Witness ==
    /\ pc = "inferred"
    /\ Args.category = Cat("PCM") /\ Args.course_type = Typ("PC")
    /\ Args.course_title = tDigitalDesign
    /\ ret.kind = "InferenceResult"
    /\ ret.inferred_shape = Shape("academic_integrated")
    /\ ret.rule_source = <<"policy">>

\* C3: whenever more than one override predicate holds, the call fails with an
\* InferenceError that names every matched rule and returns no shape.
C3_AmbiguityIsFatal ==
    (pc = "inferred" /\ EnumMembers /\ Len(MatchedNow) > 1) =>
        /\ ret.kind = "InferenceError"
        /\ ret.what = "multiple override rules matched"
        /\ ret.detail = [n \in DOMAIN MatchedNow |-> MatchedNow[n].name]

\* the case of C3: an inference call for which several rules matched
C3_Case == pc = "inferred" /\ EnumMembers /\ Len(MatchedNow) > 1

\* C4: a result is returned if and only if category and type are members of
\* their enumerations and either exactly one override matches or none matches
\* and the pair is a key of the policy table; every other call raises
\* InferenceError, among them (SEE, TC), (FCM, SC) and (SEM, TC).
C4_ResultIffClassifiable ==
    pc = "inferred" =>
        /\ ret.kind \in {"InferenceResult", "InferenceError"}
        /\ ret.kind = "InferenceResult" <=>
              /\ EnumMembers
              /\ \/ Len(MatchedNow) = 1
                 \/ Len(MatchedNow) = 0 /\ PolicyKey \in DOMAIN CONTENT_SHAPE_POLICY
        /\ PolicyKey \in { <<Cat("SEE"), Typ("TC")>>, <<Cat("FCM"), Typ("SC")>>,
                           <<Cat("SEM"), Typ("TC")>> } =>
              ret.kind = "InferenceError"

C4_Witness ==
    /\ pc = "inferred"
    /\ PolicyKey = <<Cat("SEE"), Typ("TC")>>
    /\ ret.kind = "InferenceError"
    /\ ret.what = "no content shape mapping"

\* C5: for category MDM, every course type and every title, the result is
\* project with rule_source "override:EXSEL (MDM)".
C5_ExselAlwaysProject ==
    (pc = "inferred" /\ Args.category = Cat("MDM") /\ Args.course_type \in CourseType) =>
        /\ ret.kind = "InferenceResult"
        /\ ret.inferred_shape = Shape("project")
        /\ ret.rule_source = <<"override:", "EXSEL (MDM)">>

C5_Witness ==
    /\ pc = "inferred"
    /\ Args.category = Cat("MDM") /\ Args.course_type = Typ("TC")
    /\ Args.course_title = tDigitalDesign
    /\ ret.kind = "InferenceResult"
    /\ ret.inferred_shape = Shape("project")

\* C6: no key of the policy table has an override-only category (MDM, SEM);
\* the import of the module, which checks this once, does not fail, and no
\* inference call returns a policy entry for MDM or SEM.
C6_NoOverrideOnlyPolicyKey ==
    /\ \A k \in DOMAIN CONTENT_SHAPE_POLICY : k[1] \notin { Cat("MDM"), Cat("SEM") }
    /\ pc # "import_failed"
    /\ (pc = "inferred" /\ ret.kind = "InferenceResult" /\ ret.rule_source = <<"policy">>) =>
          Args.category \notin { Cat("MDM"), Cat("SEM") }

C6_Witness ==
    /\ pc = "inferred"
    /\ Args.category = Cat("SEM") /\ Args.course_type = Typ("IC-T")
    /\ ret.kind = "InferenceError"
    /\ ret.what = "no content shape mapping"

\* C7: for an override-only category (MDM, SEM) a result has a rule_source
\* that begins with "override:", never "policy"; SEM with a type other than PC
\* ends in InferenceError.
C7_OverrideOnlyNeverPolicy ==
    (pc = "inferred" /\ Args.category \in { Cat("MDM"), Cat("SEM") }) =>
        /\ ret.kind = "InferenceResult" => ret.rule_source[1] = "override:"
        /\ (Args.category = Cat("SEM") /\ Args.course_type \in CourseType \ { Typ("PC") }) =>
              ret.kind = "InferenceError"

C7_Witness ==
    /\ pc = "inferred"
    /\ Args.category = Cat("SEM") /\ Args.course_type = Typ("PC")
    /\ ret.kind = "InferenceResult"
    /\ ret.rule_source = <<"override:", "SEM Internship">>

-----------------------------------------------------------------------------
(* Properties of Stage-2b                                                   *)

\* the validator that belongs to a shape value
ValidatorOf(v) ==
    CASE v = "academic_theory"     -> "validate_academic_theory"
      [] v = "academic_integrated" -> "validate_academic_integrated"
      [] v = "skill_practice"      -> "validate_skill_practice"
      [] v = "project"             -> "validate_project"

ErrorId == IF ret.error = <<>> THEN "" ELSE ret.error[1].invariant_id

\* C8: handing a shape that infer_content_shape put into
\* InferenceResult.inferred_shape to validate_course runs the validator of the
\* same shape, and SHAPE-UNKNOWN is not raised.
C8_InferredShapeDispatched ==
    (pc = "validated" /\ Args.inferred_shape \in ContentShape) =>
        /\ ret.validator = ValidatorOf(Args.inferred_shape.value)
        /\ ErrorId # "SHAPE-UNKNOWN"

IsPrefix(a, b) == Len(a) <= Len(b) /\ SubSeq(b, 1, Len(a)) = a

\* the unit that the heading of section k opens: its index among the units
UnitIndex(sections, k) ==
    Cardinality({ j \in 1..k : UNIT_HEADER_RE(sections[j].title) # <<>> })

\* what the lines of the body of section k alone give a unit
OwnBody(sections, k) == ScanLines(UnitBlock(0), SplitLines(sections[k].body))

\* C9: the body lines of a unit heading's own section are scanned: a bullet
\* line, hour declaration or experiment line written there becomes a topic,
\* hour field or experiment of that unit.
C9_OwnSectionBodyScanned ==
    (pc = "validated" /\ ret.validator # "") =>
        \A k \in DOMAIN Args.sections :
            UNIT_HEADER_RE(Args.sections[k].title) # <<>> =>
                /\ IsPrefix(OwnBody(Args.sections, k).topics,
                            ret.units[UnitIndex(Args.sections, k)].topics)
                /\ IsPrefix(OwnBody(Args.sections, k).experiments,
                            ret.units[UnitIndex(Args.sections, k)].experiments)
                /\ OwnBody(Args.sections, k).theory_hours # <<>> =>
                      ret.units[UnitIndex(Args.sections, k)].theory_hours # <<>>
                /\ OwnBody(Args.sections, k).lab_hours # <<>> =>
                      ret.units[UnitIndex(Args.sections, k)].lab_hours # <<>>
                /\ OwnBody(Args.sections, k).x_hours # <<>> =>
                      ret.units[UnitIndex(Args.sections, k)].x_hours # <<>>

\* five units with strictly increasing numbers, each without experiments and
\* without lab or activity hours, with 4 to 8 topics and theory hours above 0
TheoryWellFormed(units) ==
    /\ Len(units) = 5
    /\ \A i \in 1..4 : units[i].number < units[i + 1].number
    /\ \A i \in 1..5 :
          /\ units[i].experiments = <<>>
          /\ ~Truthy(units[i].lab_hours) /\ ~Truthy(units[i].x_hours)
          /\ 4 <= Len(units[i].topics) /\ Len(units[i].topics) <= 8
          /\ units[i].theory_hours # <<>> /\ units[i].theory_hours[1] > 0

DeclaredTheory(units) ==
    units[1].theory_hours[1] + units[2].theory_hours[1] + units[3].theory_hours[1]
        + units[4].theory_hours[1] + units[5].theory_hours[1]

\* C10: for the academic-theory shape and five well-formed units with theory
\* hours h_i, validate_course returns exactly when the sum of the h_i equals
\* the expected total hours, and raises AT-HOUR-MISMATCH otherwise.
C10_TheorySumDecides ==
    (pc = "validated" /\ Args.inferred_shape = VShape("academic_theory")
        /\ TheoryWellFormed(ret.units)) =>
        IF DeclaredTheory(ret.units) = Args.ltpxtotal_hours
        THEN ret.error = <<>>
        ELSE ErrorId = "AT-HOUR-MISMATCH"

C10_Witness ==
    /\ pc = "validated"
    /\ Args.inferred_shape = VShape("academic_theory")
    /\ TheoryWellFormed(ret.units)
    /\ \A i \in 1..5 : ret.units[i].theory_hours = <<15>>
    /\ Args.ltpxtotal_hours = 75
    /\ ret.error = <<>>

\* C11: an academic-theory document in which some unit has an experiment
\* entry or declares lab hours or activity hours, whatever the declared value,
\* fails validation.
C11_TheoryRejectsAnyPracticeField ==
    (pc = "validated" /\ ret.validator = "validate_academic_theory"
        /\ \E i \in DOMAIN ret.units :
              \/ ret.units[i].experiments # <<>>
              \/ ret.units[i].lab_hours # <<>>
              \/ ret.units[i].x_hours # <<>>) =>
        ret.error # <<>>

\* five units in increasing order, each with 1 to 4 experiments and with no
\* topics or 4 to 8 topics: the rules that precede the hour rules
IntegratedBeforeHours(units) ==
    /\ Len(units) = 5
    /\ \A i \in 1..4 : units[i].number < units[i + 1].number
    /\ \A i \in 1..5 :
          /\ 1 <= Len(units[i].experiments) /\ Len(units[i].experiments) <= 4
          /\ Len(units[i].topics) \in {0} \cup 4..8

\* the hour rule that unit u breaks, "" when it breaks none
HourFault(u) ==
    IF u.theory_hours = <<>> /\ u.lab_hours = <<>> /\ u.x_hours = <<>>
    THEN "AI-HOUR-BLOCK-MISSING"
    ELSE IF u.theory_hours = <<0>> THEN "AI-THEORY-HOUR-ZERO"
    ELSE IF u.lab_hours = <<0>> THEN "AI-LAB-HOUR-ZERO"
    ELSE IF u.x_hours = <<0>> THEN "AI-X-HOUR-ZERO"
    ELSE ""

Faulty(units) == { k \in DOMAIN units : HourFault(units[k]) # "" }

\* C12: for the academic-integrated shape a declared 0 and an absent field
\* differ: the first unit that breaks an hour rule decides the error, which is
\* AI-HOUR-BLOCK-MISSING only when all three fields are absent and
\* AI-THEORY/LAB/X-HOUR-ZERO when a field is declared as 0; a document whose
\* units each declare a nonzero field and leave the others absent is not
\* rejected for its hours.
C12_ZeroDiffersFromAbsent ==
    (pc = "validated" /\ ret.validator = "validate_academic_integrated"
        /\ IntegratedBeforeHours(ret.units)) =>
        IF Faulty(ret.units) = {}
        THEN ErrorId \in {"", "AI-HOUR-MISMATCH"}
        ELSE /\ ErrorId = HourFault(ret.units[Min(Faulty(ret.units))])
             /\ ret.error[1].info = <<ret.units[Min(Faulty(ret.units))].number>>

C12_Witness ==
    /\ pc = "validated"
    /\ ret.validator = "validate_academic_integrated"
    /\ IntegratedBeforeHours(ret.units)
    /\ ret.units[4].theory_hours = <<>>
    /\ ret.units[4].lab_hours = <<0>>
    /\ ret.units[4].x_hours = <<>>
    /\ ErrorId = "AI-LAB-HOUR-ZERO"

\* a unit that declares lab hours only, next to units that declare theory
\* hours only, passes validation
C12_AbsentAccepted ==
    /\ pc = "validated"
    /\ ret.validator = "validate_academic_integrated"
    /\ IntegratedBeforeHours(ret.units)
    /\ ret.units[1].theory_hours = <<>>
    /\ ret.units[1].lab_hours = <<15>>
    /\ ret.units[1].x_hours = <<>>
    /\ ret.error = <<>>

\* the titles of the section catalogue that contain "project" in some case
ProjectTitles == { ttProject, ttProjectWork }

\* number of sections of the call whose title contains "project"
ProjectSectionCount ==
    Cardinality({ k \in DOMAIN Args.sections : Args.sections[k].title \in ProjectTitles })

\* C13: for the project shape and sections that yield no unit, validation
\* fails with PR-DESCRIPTION-COUNT whenever the number of sections whose title
\* contains "project" (in any case) is not 1, and the error reports that number.
C13_DescriptionCount ==
    (pc = "validated" /\ ret.validator = "validate_project" /\ ret.units = <<>>) =>
        /\ ProjectSectionCount # 1 =>
              /\ ErrorId = "PR-DESCRIPTION-COUNT"
              /\ ret.error[1].info = <<ProjectSectionCount>>
        /\ ProjectSectionCount = 1 => ErrorId # "PR-DESCRIPTION-COUNT"

C13_Witness ==
    /\ pc = "validated"
    /\ ret.validator = "validate_project"
    /\ ret.units = <<>>
    /\ Len(Args.sections) = 2
    /\ Args.sections[1].title = ttProject
    /\ Args.sections[2].title = ttProjectWork
    /\ ErrorId = "PR-DESCRIPTION-COUNT"
    /\ ret.error[1].info = <<2>>

\* no section at all: the count reported is 0
C13_NoneFound ==
    /\ pc = "validated"
    /\ ret.validator = "validate_project"
    /\ Args.sections = <<>>
    /\ ErrorId = "PR-DESCRIPTION-COUNT"
    /\ ret.error[1].info = <<0>>

\* the project section of the call, when exactly one title contains "project"
ProjectSection ==
    Args.sections[CHOOSE k \in DOMAIN Args.sections : Args.sections[k].title \in ProjectTitles]

\* the value of the first total-hours line of the bodies that the project
\* sections of the catalogue carry: <<>> when the body has no such line
FirstDeclaredTotal(body) ==
    CASE body = Body(<<lnProse, lnTotal75, lnTotal0>>) -> <<75>>
      [] body = Body(<<lnTotal0>>) -> <<0>>
      [] body = Body(<<lnProse>>) -> <<>>

\* the first rule of the project shape that the call breaks, "" when none
ProjectFault ==
    IF ret.units # <<>> THEN "PR-UNIT-FORBIDDEN"
    ELSE IF ProjectSectionCount # 1 THEN "PR-DESCRIPTION-COUNT"
    ELSE IF FirstDeclaredTotal(ProjectSection.body) = <<>> THEN "PR-HOUR-MISSING"
    ELSE IF FirstDeclaredTotal(ProjectSection.body) = <<0>> THEN "PR-HOUR-ZERO"
    ELSE IF FirstDeclaredTotal(ProjectSection.body) # <<Args.ltpxtotal_hours>>
    THEN "PR-HOUR-MISMATCH"
    ELSE ""

\* C14: validate_project succeeds exactly when the sections yield no unit,
\* one section title contains "project", its body has a total-hours line and
\* the value of the first such line is nonzero and equals the expected total;
\* otherwise the error is the first broken rule in the order PR-UNIT-FORBIDDEN,
\* PR-DESCRIPTION-COUNT, PR-HOUR-MISSING, PR-HOUR-ZERO, PR-HOUR-MISMATCH, so a
\* declared total of 0 is rejected also when the expected total is 0.
C14_ProjectRuleOrder ==
    (pc = "validated" /\ ret.validator = "validate_project") =>
        ErrorId = ProjectFault

C14_Witness ==
    /\ pc = "validated"
    /\ ret.validator = "validate_project"
    /\ Len(Args.sections) = 2
    /\ Args.sections[1].title = ttOutcomes
    /\ Args.sections[2] = MarkdownSection(ttProject, Body(<<lnProse, lnTotal75, lnTotal0>>))
    /\ Args.ltpxtotal_hours = 75
    /\ ret.error = <<>>

\* declared total 0 and expected total 0: rejected by the zero rule
C14_ZeroRejected ==
    /\ pc = "validated"
    /\ ret.validator = "validate_project"
    /\ Args.sections = <<MarkdownSection(ttProjectWork, Body(<<lnTotal0>>))>>
    /\ Args.ltpxtotal_hours = 0
    /\ ErrorId = "PR-HOUR-ZERO"

\* no unit has an experiment entry or a nonzero lab or activity hour value
NoActivity(units) ==
    \A i \in DOMAIN units :
        /\ units[i].experiments = <<>>
        /\ units[i].lab_hours \in {<<>>, <<0>>}
        /\ units[i].x_hours \in {<<>>, <<0>>}

\* the numbering rule and the per-unit rules of the skill-practice shape
SkillUnitRulesMet(units) ==
    /\ \A i \in 1..(Len(units) - 1) : units[i].number < units[i + 1].number
    /\ \A i \in DOMAIN units :
          /\ units[i].theory_hours \in {<<>>, <<0>>}
          /\ units[i].lab_hours # <<>> \/ units[i].x_hours # <<>>
          /\ units[i].lab_hours # <<0>> /\ units[i].x_hours # <<0>>

\* C15: a skill-practice course in which no unit has an experiment entry or a
\* nonzero lab or activity hour value fails validation, a course without units
\* included; the error is SP-ACTIVITY-MISSING when the per-unit rules are met,
\* it is raised only then, and it is raised before the totals are compared:
\* such a course never ends in SP-HOUR-MISMATCH.
C15_ActivityRequired ==
    (pc = "validated" /\ ret.validator = "validate_skill_practice") =>
        /\ NoActivity(ret.units) =>
              /\ ret.error # <<>>
              /\ ErrorId # "SP-HOUR-MISMATCH"
        /\ ErrorId = "SP-ACTIVITY-MISSING" <=>
              (NoActivity(ret.units) /\ SkillUnitRulesMet(ret.units))
        /\ ret.units = <<>> => ErrorId = "SP-ACTIVITY-MISSING"

C15_Witness ==
    /\ pc = "validated"
    /\ ret.validator = "validate_skill_practice"
    /\ Args.sections = <<MarkdownSection(ttOutcomes,
                                         Body(<<lnLab3, lnTheory12, lnTheory15, lnExperiment>>))>>
    /\ ret.units = <<>>
    /\ Args.ltpxtotal_hours = 75
    /\ ErrorId = "SP-ACTIVITY-MISSING"

\* the hours a field contributes to a unit's total: absent counts as 0
Hours(o) == IF o = <<>> THEN 0 ELSE o[1]

\* the declared sum of theory, lab and activity hours over the units
RECURSIVE DeclaredSum(_)
DeclaredSum(units) ==
    IF units = <<>> THEN 0
    ELSE Hours(Head(units).theory_hours) + Hours(Head(units).lab_hours)
            + Hours(Head(units).x_hours) + DeclaredSum(Tail(units))

\* every rule of the academic-theory shape but the total comparison
TheoryRulesMet(units) ==
    /\ Len(units) = 5
    /\ \A i \in 1..4 : units[i].number < units[i + 1].number
    /\ \A i \in 1..5 :
          /\ units[i].experiments = <<>>
          /\ units[i].lab_hours \in {<<>>, <<0>>} /\ units[i].x_hours \in {<<>>, <<0>>}
          /\ Len(units[i].topics) \in 4..8
          /\ units[i].theory_hours \notin {<<>>, <<0>>}

\* every rule of the shape of the validator that ran, but the total comparison
OtherRulesMet ==
    CASE ret.validator = "validate_academic_theory" -> TheoryRulesMet(ret.units)
      [] ret.validator = "validate_academic_integrated" ->
            IntegratedBeforeHours(ret.units) /\ Faulty(ret.units) = {}
      [] ret.validator = "validate_skill_practice" ->
            SkillUnitRulesMet(ret.units) /\ ~NoActivity(ret.units)
      [] ret.validator = "validate_project" ->
            ProjectFault \in {"", "PR-HOUR-MISMATCH"}

\* the total a document declares: the sum over its units, the declared total
\* of the project section for the project shape
DeclaredHours ==
    IF ret.validator = "validate_project"
    THEN FirstDeclaredTotal(ProjectSection.body)[1]
    ELSE DeclaredSum(ret.units)

MismatchId ==
    CASE ret.validator = "validate_academic_theory" -> "AT-HOUR-MISMATCH"
      [] ret.validator = "validate_academic_integrated" -> "AI-HOUR-MISMATCH"
      [] ret.validator = "validate_skill_practice" -> "SP-HOUR-MISMATCH"
      [] ret.validator = "validate_project" -> "PR-HOUR-MISMATCH"

\* C16: in each of the four validators the total comparison is the last rule:
\* a document that breaks another rule of its shape fails with an error other
\* than *-HOUR-MISMATCH, and a document that breaks none fails with
\* *-HOUR-MISMATCH exactly when its declared hours (theory + lab + activity
\* over the units, absent counted as 0; the declared total for a project)
\* differ from the expected total, and passes otherwise.
C16_TotalComparedLast ==
    (pc = "validated" /\ ret.validator # "") =>
        IF OtherRulesMet
        THEN ErrorId = (IF DeclaredHours = Args.ltpxtotal_hours THEN "" ELSE MismatchId)
        ELSE ErrorId \notin {"", MismatchId}

C16_Witness ==
    /\ pc = "validated"
    /\ ret.validator = "validate_academic_integrated"
    /\ OtherRulesMet
    /\ ret.units[1].lab_hours = <<15>>
    /\ ret.units[2].theory_hours = <<15>>
    /\ DeclaredHours = 75
    /\ Args.ltpxtotal_hours = 60
    /\ ErrorId = "AI-HOUR-MISMATCH"

\* skill-practice: lab and activity hours add up to the expected total
C16_SkillTotalMet ==
    /\ pc = "validated"
    /\ ret.validator = "validate_skill_practice"
    /\ OtherRulesMet
    /\ DeclaredHours = 75 /\ Args.ltpxtotal_hours = 75
    /\ \E i \in DOMAIN ret.units : ret.units[i].x_hours = <<12>>
    /\ ret.error = <<>>

UnitNumbers == { ret.units[i].number : i \in DOMAIN ret.units }

HasDuplicate == Cardinality(UnitNumbers) # Len(ret.units)

Increasing == \A i \in 1..(Len(ret.units) - 1) : ret.units[i].number < ret.units[i + 1].number

Prefix ==
    CASE ret.validator = "validate_academic_theory" -> "AT"
      [] ret.validator = "validate_academic_integrated" -> "AI"
      [] ret.validator = "validate_skill_practice" -> "SP"
      [] ret.validator = "validate_project" -> "PR"

\* the rule <prefix>-UNIT-COUNT of the shape, which only the theory and the
\* integrated shape have, is met
UnitCountRuleMet ==
    ret.validator \in {"validate_academic_theory", "validate_academic_integrated"}
        => Len(ret.units) = 5

\* C17: each of the four validators applies the numbering rule to the
\* extracted units: under every shape, once the shape's unit-count rule is
\* met, unit numbers with a duplicate fail with <prefix>-UNIT-DUPLICATE and
\* unique numbers that are not increasing fail with <prefix>-UNIT-ORDER.
C17_NumberingRuleShared ==
    (pc = "validated" /\ ret.validator # "" /\ UnitCountRuleMet) =>
        /\ HasDuplicate => ErrorId = Prefix \o "-UNIT-DUPLICATE"
        /\ (~HasDuplicate /\ ~Increasing) => ErrorId = Prefix \o "-UNIT-ORDER"

\* C17 as amended: the theory, integrated and skill-practice validators apply
\* the numbering rule (theory and integrated once five units are found); the
\* project validator does not: any unit makes it fail with PR-UNIT-FORBIDDEN
\* and it never raises a numbering error.
C17_ThreeShapesNumbered ==
    (pc = "validated" /\ ret.validator # "" /\ UnitCountRuleMet) =>
        IF ret.validator = "validate_project"
        THEN /\ ret.units # <<>> => ErrorId = "PR-UNIT-FORBIDDEN"
             /\ ErrorId \notin {"PR-UNIT-DUPLICATE", "PR-UNIT-ORDER"}
        ELSE /\ HasDuplicate => ErrorId = Prefix \o "-UNIT-DUPLICATE"
             /\ (~HasDuplicate /\ ~Increasing) => ErrorId = Prefix \o "-UNIT-ORDER"

C17_Witness ==
    /\ pc = "validated"
    /\ ret.validator = "validate_skill_practice"
    /\ Len(ret.units) = 5
    /\ ~HasDuplicate /\ ~Increasing
    /\ ErrorId = "SP-UNIT-ORDER"

-----------------------------------------------------------------------------
(* Properties of Stage-2c                                                   *)

\* the <<unit index, topic index>> pairs of the units of the call
TopicPositions ==
    { p \in (DOMAIN Args.units) \X (1..8) : p[2] <= Len(Args.units[p[1]].topics) }

TopicAt(p) == Args.units[p[1]].topics[p[2]]

\* C18: validate_content_blocks fails for every unit list in which some topic
\* has no ':' or ends with a bare ':'; it succeeds on topics only when every
\* topic has a ':' followed by a non-empty text.
C18_TopicNeedsSubItems ==
    (pc = "blocks_validated"
        /\ \E p \in TopicPositions :
              \/ ":" \notin Range(TopicAt(p))
              \/ TopicAt(p)[Len(TopicAt(p))] = ":") =>
        ret.error # <<>>

\* some topic of the call has no ':'
TopicFault == \E p \in TopicPositions : ":" \notin Range(TopicAt(p))

IsBlank(text) == \A i \in DOMAIN text : text[i] = " "

\* some experiment entry of the call is empty or blank
ExperimentFault ==
    \E k \in DOMAIN Args.units :
        \E j \in DOMAIN Args.units[k].experiments : IsBlank(Args.units[k].experiments[j])

\* the units that declare nonzero activity hours and have no experiment entry
ActivityMissing ==
    { k \in DOMAIN Args.units :
        /\ Args.units[k].x_hours \notin {<<>>, <<0>>}
        /\ Args.units[k].experiments = <<>> }

\* C19: validate_content_blocks, which takes no content shape, fails with
\* XG-ACTIVITY-MISSING for a unit whose activity hours are nonzero and whose
\* experiment list is empty, and never because of a unit with absent or zero
\* activity hours; a topic error of any unit is reported before an experiment
\* error, and an experiment error before this rule.
C19_ActivityNeedsDescription ==
    pc = "blocks_validated" =>
        IF TopicFault THEN ErrorId = "TG-COLON-MISSING"
        ELSE IF ExperimentFault THEN ErrorId = "EXP-TITLE-MISSING"
        ELSE IF ActivityMissing # {}
        THEN /\ ErrorId = "XG-ACTIVITY-MISSING"
             /\ ret.error[1].info = <<Args.units[Min(ActivityMissing)].number>>
        ELSE ret.error = <<>>

C19_Witness ==
    /\ pc = "blocks_validated"
    /\ Len(Args.units) = 2
    /\ Args.units[1].x_hours = <<0>> /\ Args.units[1].experiments = <<>>
    /\ Args.units[2].x_hours = <<2>> /\ Args.units[2].experiments = <<>>
    /\ ErrorId = "XG-ACTIVITY-MISSING"
    /\ ret.error[1].info = <<Args.units[2].number>>

\* a unit that breaks the activity rule before a unit with a blank experiment
\* entry: the experiment error is the one reported
C19_ExperimentFirst ==
    /\ pc = "blocks_validated"
    /\ ~TopicFault
    /\ 1 \in ActivityMissing
    /\ ExperimentFault
    /\ ErrorId = "EXP-TITLE-MISSING"

-----------------------------------------------------------------------------
(* Properties of the tokenizer                                              *)

TextLines == SplitLines(Args.md_text)

\* the lines of the catalogue that are headings, their levels and titles
HeadingLines == { mdHeading1, mdHeading2 }
HeadLevel(line) == IF line = mdHeading1 THEN 1 ELSE 2
HeadTitle(line) == IF line = mdHeading1 THEN ttUnit1 ELSE ttTopics

\* the fence a line of the catalogue carries, "" when it is no fence line
FenceOf(line) ==
    IF line = mdFence3 THEN "three backticks"
    ELSE IF line = mdFence4 THEN "four tildes"
    ELSE ""

\* the open fence once a line with fence f has been read in a text with the
\* fence prev open
FenceAfter(prev, f) ==
    IF f = "" THEN prev
    ELSE IF prev = "" THEN f
    ELSE IF f = prev THEN ""
    ELSE prev

\* the fence that is open behind line k, "" outside fenced blocks
RECURSIVE OpenFence(_, _)
OpenFence(lines, k) ==
    IF k = 0 THEN "" ELSE FenceAfter(OpenFence(lines, k - 1), FenceOf(lines[k]))

\* the indexes of the heading lines outside fenced blocks
Headings ==
    { k \in DOMAIN TextLines :
        TextLines[k] \in HeadingLines /\ OpenFence(TextLines, k - 1) = "" }

\* the first index above k that is a heading of Headings, or the end of the text
HeadingAfter(k) ==
    IF \E h \in Headings : h > k
    THEN Min({ h \in Headings : h > k })
    ELSE Len(TextLines) + 1

\* the j-th heading
NthHeading(j) == CHOOSE h \in Headings : Cardinality({ g \in Headings : g < h }) = j - 1

\* 1 when a line before the first heading is not blank, else 0
PreambleCount ==
    IF \E k \in 1..(HeadingAfter(0) - 1) : TextLines[k] # mdBlank THEN 1 ELSE 0

\* the trimmed lines between heading line h and the next heading
BodyBehind(h) == Strip(JoinLines(SubSeq(TextLines, h + 1, HeadingAfter(h) - 1)))

\* C20: for a text with N heading lines outside fenced blocks,
\* split_markdown_sections returns N sections, or N + 1 when the text before
\* the first heading has non-blank content; the heading sections come in the
\* order of their lines, each with its count of leading '#' as level, the
\* trimmed heading text as title and the trimmed lines up to the next heading
\* as body.
C20_OneSectionPerHeading ==
    pc = "split" =>
        /\ Len(ret.sections) = Cardinality(Headings) + PreambleCount
        /\ \A j \in 1..Cardinality(Headings) :
              ret.sections[PreambleCount + j] =
                  LeveledSection(HeadLevel(TextLines[NthHeading(j)]),
                                 HeadTitle(TextLines[NthHeading(j)]),
                                 BodyBehind(NthHeading(j)))

C20_Witness ==
    /\ pc = "split"
    /\ TextLines = <<mdNoTitle, mdHeading2, mdFence3, mdHeading1>>
    /\ Len(ret.sections) = 2
    /\ ret.sections[1].level = 0
    /\ ret.sections[2] = LeveledSection(2, ttTopics, JoinLines(<<mdFence3, mdHeading1>>))

\* two headings, no preamble: two sections in the order of the lines
C20_TwoHeadings ==
    /\ pc = "split"
    /\ TextLines = <<mdBlank, mdHeading1, mdNoTitle, mdHeading2>>
    /\ ret.sections = <<LeveledSection(1, ttUnit1, <<"#","#","#">>),
                        LeveledSection(2, ttTopics, <<>>)>>

-----------------------------------------------------------------------------
(* Properties of extract_units                                              *)

\* the unit number a section title of the catalogue announces, 0 when the
\* title is no unit heading
UnitTitleNumber(title) ==
    CASE title = ttUnit1 -> 1
      [] title = ttUnit2 -> 2
      [] title = ttUnit3 -> 3
      [] title = ttUnit4 -> 4
      [] title = ttUnit5 -> 5
      [] OTHER -> 0

IsUnitHeading(sec) == UnitTitleNumber(sec.title) > 0

\* the number of unit headings among the first k sections
HeadingsUpTo(sections, k) ==
    Cardinality({ j \in 1..k : IsUnitHeading(sections[j]) })

\* the body lines, from section k on, of the sections that stand behind the
\* j-th unit heading and before the next one
RECURSIVE ScannedLines(_, _, _)
ScannedLines(sections, j, k) ==
    IF k > Len(sections) THEN <<>>
    ELSE (IF ~IsUnitHeading(sections[k]) /\ HeadingsUpTo(sections, k) = j
          THEN SplitLines(sections[k].body)
          ELSE <<>>) \o ScannedLines(sections, j, k + 1)

\* the field a line of the catalogue goes to
KindOf(line) ==
    CASE line \in {lnTopicA, lnTopicB, lnTopicC, lnTopicD, lnBulletHours, lnBulletLab} -> "topic"
      [] line \in {lnTheory15, lnTheory12, lnTheory0, lnTheoryLab} -> "theory"
      [] line \in {lnLab0, lnLab3, lnLab15} -> "lab"
      [] line \in {lnX2, lnX12, lnX0, lnXLab} -> "x"
      [] line = lnExperiment -> "experiment"
      [] OTHER -> "none"

\* the hours an hour line of the catalogue declares
ValueOf(line) ==
    CASE line \in {lnTheory15, lnLab15} -> 15
      [] line \in {lnTheory12, lnX12} -> 12
      [] line \in {lnTheory0, lnLab0, lnX0} -> 0
      [] line \in {lnLab3, lnTheoryLab} -> 3
      [] line = lnX2 -> 2
      [] line = lnXLab -> 4

OfKind(lines, kind) == { i \in DOMAIN lines : KindOf(lines[i]) = kind }

\* the value of the last line of a kind, None when there is no such line
LastValue(lines, kind) ==
    IF OfKind(lines, kind) = {} THEN <<>>
    ELSE <<ValueOf(lines[CHOOSE i \in OfKind(lines, kind) :
                             \A h \in OfKind(lines, kind) : h <= i])>>

HoursFromLast(u, lines) ==
    /\ u.theory_hours = LastValue(lines, "theory")
    /\ u.lab_hours = LastValue(lines, "lab")
    /\ u.x_hours = LastValue(lines, "x")

\* C24: each hour field of a unit holds the value of the last line, in
\* document order, that declares the field among the lines scanned for that
\* unit, and is None when no line scanned for that unit declares it, whatever
\* the other units declare.
C24_LastDeclarationWins ==
    (pc = "validated" /\ ret.validator # "") =>
        \A j \in DOMAIN ret.units :
            HoursFromLast(ret.units[j], ScannedLines(Args.sections, j, 1))

C24_Witness ==
    /\ pc = "validated"
    /\ Args.sections =
          <<MarkdownSection(ttUnit2, <<>>),
            MarkdownSection(ttOutcomes, Body(<<lnLab3, lnTheory12, lnTheory15, lnExperiment>>))>>
    /\ ret.validator # ""
    /\ ret.units[1].theory_hours = <<15>>
    /\ ret.units[1].lab_hours = <<3>>

\* the lab hours of the first unit stay with the first unit
C24_OtherUnitsKept ==
    /\ pc = "validated"
    /\ ret.validator # ""
    /\ Len(ret.units) = 5
    /\ ret.units[1].lab_hours = <<3>> /\ ret.units[1].theory_hours = <<12>>
    /\ \A j \in 2..5 : ret.units[j].lab_hours = <<>> /\ ret.units[j].theory_hours = <<15>>

\* the sections from the first unit heading on
FromFirstHeading(sections) ==
    SubSeq(sections,
           Min({ k \in DOMAIN sections : IsUnitHeading(sections[k]) } \cup {Len(sections) + 1}),
           Len(sections))

\* C25: extract_units returns one UnitBlock per section whose title is a unit
\* heading, in the order of the headings and with the number of the heading,
\* and the units are those of the document without the sections that precede
\* the first unit heading.
C25_OneUnitPerHeading ==
    (pc = "validated" /\ ret.validator # "") =>
        /\ Len(ret.units) = HeadingsUpTo(Args.sections, Len(Args.sections))
        /\ \A k \in DOMAIN Args.sections :
              IsUnitHeading(Args.sections[k]) =>
                  ret.units[HeadingsUpTo(Args.sections, k)].number =
                      UnitTitleNumber(Args.sections[k].title)
        /\ ret.units = extract_units(FromFirstHeading(Args.sections))

C25_Witness ==
    /\ pc = "validated"
    /\ Args.sections =
          <<MarkdownSection(ttTopics, Body(<<lnTopicA, lnBulletHours, lnLab0, lnX2>>)),
            MarkdownSection(ttUnit2, <<>>)>>
    /\ ret.validator # ""
    /\ ret.units = <<UnitBlock(2)>>

\* two headings with the same number give two units
C25_RepeatedHeading ==
    /\ pc = "validated"
    /\ ret.validator # ""
    /\ Len(ret.units) = 5
    /\ ret.units[2].number = 2 /\ ret.units[3].number = 2

PriorityKept(u, lines) ==
    /\ Len(u.topics) = Cardinality(OfKind(lines, "topic"))
    /\ u.experiments = SelectSeq(lines, LAMBDA line : KindOf(line) = "experiment")
    /\ (u.theory_hours # <<>>) = (OfKind(lines, "theory") # {})
    /\ (u.lab_hours # <<>>) = (OfKind(lines, "lab") # {})
    /\ (u.x_hours # <<>>) = (OfKind(lines, "x") # {})

\* C28: every body line scanned for a unit goes to at most one field: a line
\* starting with '-' or '*' is a topic, also when it reads as an hour
\* declaration or mentions an experiment; otherwise the line sets the theory
\* hours, otherwise the lab hours, otherwise the activity hours, otherwise a
\* line with the word "experiment" or "lab" is an experiment.  A line taken as
\* an hour declaration is no experiment.
C28_LinePriority ==
    (pc = "validated" /\ ret.validator # "") =>
        \A j \in DOMAIN ret.units :
            PriorityKept(ret.units[j], ScannedLines(Args.sections, j, 1))

C28_Witness ==
    /\ pc = "validated"
    /\ Args.sections =
          <<MarkdownSection(ttUnit2, <<>>),
            MarkdownSection(ttTopics, Body(<<lnBulletLab, lnTheoryLab, lnXLab>>))>>
    /\ ret.validator # ""
    /\ ret.units[1].topics = << <<"L","a","b"," ","e","x","p","e","r","i","m","e","n","t"," ","2">> >>
    /\ ret.units[1].theory_hours = <<3>>
    /\ ret.units[1].lab_hours = <<>>
    /\ ret.units[1].x_hours = <<4>>
    /\ ret.units[1].experiments = <<>>

\* a bullet that reads as an hour declaration is a topic
C28_BulletHours ==
    /\ pc = "validated"
    /\ Args.sections =
          <<MarkdownSection(ttUnit2, <<>>),
            MarkdownSection(ttTopics, Body(<<lnTopicA, lnBulletHours, lnLab0, lnX2>>))>>
    /\ ret.validator # ""
    /\ Len(ret.units[1].topics) = 2
    /\ ret.units[1].theory_hours = <<>>
    /\ ret.units[1].lab_hours = <<0>>
    /\ ret.units[1].experiments = <<>>

-----------------------------------------------------------------------------
(* Order of the checks                                                      *)

\* the first rule, in the order of validate_academic_theory, that unit u
\* breaks, "" when it breaks none
TheoryFault(u) ==
    IF u.experiments # <<>> THEN "AT-EXPERIMENT-FORBIDDEN"
    ELSE IF u.lab_hours \notin {<<>>, <<0>>} \/ u.x_hours \notin {<<>>, <<0>>}
    THEN "AT-NON-THEORY-HOURS-FORBIDDEN"
    ELSE IF Len(u.topics) \notin 4..8 THEN "AT-TOPIC-CARDINALITY"
    ELSE IF u.theory_hours = <<>> THEN "AT-THEORY-HOUR-MISSING"
    ELSE IF u.theory_hours = <<0>> THEN "AT-THEORY-HOUR-ZERO"
    ELSE ""

\* the first rule, in the order of validate_academic_integrated, that unit u
\* breaks
IntegratedFault(u) ==
    IF u.experiments = <<>> THEN "AI-EXPERIMENT-MISSING"
    ELSE IF Len(u.experiments) > 4 THEN "AI-EXPERIMENT-COUNT"
    ELSE IF Len(u.topics) \notin {0} \cup 4..8 THEN "AI-TOPIC-CARDINALITY"
    ELSE HourFault(u)

UnitFault(u) ==
    IF ret.validator = "validate_academic_theory" THEN TheoryFault(u) ELSE IntegratedFault(u)

FaultyUnits == { k \in DOMAIN ret.units : UnitFault(ret.units[k]) # "" }

\* the error the order of the checks prescribes, "" for none
FirstViolation ==
    IF Len(ret.units) # 5 THEN Prefix \o "-UNIT-COUNT"
    ELSE IF HasDuplicate THEN Prefix \o "-UNIT-DUPLICATE"
    ELSE IF ~Increasing THEN Prefix \o "-UNIT-ORDER"
    ELSE IF FaultyUnits # {} THEN UnitFault(ret.units[Min(FaultyUnits)])
    ELSE IF DeclaredSum(ret.units) # Args.ltpxtotal_hours THEN MismatchId
    ELSE ""

\* C27: a call of validate_course for the theory or the integrated shape
\* raises at most one ValidationError, that of the first violated check in the
\* order unit count, numbering, units in document order, total; within a
\* theory unit the order is experiments forbidden, non-theory hours forbidden,
\* topic cardinality, theory hours missing, theory hours zero; the error of a
\* unit names the first unit that breaks a rule, whatever later units break.
C27_FirstViolationReported ==
    (pc = "validated"
        /\ ret.validator \in {"validate_academic_theory", "validate_academic_integrated"}) =>
        /\ Len(ret.error) <= 1
        /\ ErrorId = FirstViolation
        /\ (Len(ret.units) = 5 /\ ~HasDuplicate /\ Increasing /\ FaultyUnits # {}) =>
              ret.error[1].info[1] = ret.units[Min(FaultyUnits)].number

\* unit 1 declares theory hours 0, the last rule of the order, and unit 2 has
\* an experiment, the first rule of the order: the error is that of unit 1
C27_Witness ==
    /\ pc = "validated"
    /\ ret.validator = "validate_academic_theory"
    /\ Len(ret.units) = 5 /\ ~HasDuplicate /\ Increasing
    /\ TheoryFault(ret.units[1]) = "AT-THEORY-HOUR-ZERO"
    /\ TheoryFault(ret.units[2]) = "AT-EXPERIMENT-FORBIDDEN"
    /\ ErrorId = "AT-THEORY-HOUR-ZERO"
    /\ ret.error[1].info = <<1>>

\* within one unit: hours declared as lab hours only, no topic and no theory
\* hours give the error of the non-theory hours
C27_HoursBeforeTopics ==
    /\ pc = "validated"
    /\ ret.validator = "validate_academic_theory"
    /\ Len(ret.units) = 5 /\ ~HasDuplicate /\ Increasing
    /\ FaultyUnits = {3}
    /\ ret.units[3].experiments = <<>>
    /\ ret.units[3].lab_hours = <<3>>
    /\ ret.units[3].topics = <<>>
    /\ ret.units[3].theory_hours = <<>>
    /\ ErrorId = "AT-NON-THEORY-HOURS-FORBIDDEN"

\* within one unit: one topic and theory hours 0 give the topic error
C27_TopicsBeforeTheory ==
    /\ pc = "validated"
    /\ ret.validator = "validate_academic_theory"
    /\ Len(ret.units) = 5 /\ ~HasDuplicate /\ Increasing
    /\ FaultyUnits = {3}
    /\ Len(ret.units[3].topics) = 1
    /\ ret.units[3].theory_hours = <<0>>
    /\ ErrorId = "AT-TOPIC-CARDINALITY"

\* within one unit: an experiment and too few topics give the experiment error
C27_WithinUnit ==
    /\ pc = "validated"
    /\ ret.validator = "validate_academic_theory"
    /\ Len(ret.units) = 5 /\ ~HasDuplicate /\ Increasing
    /\ \E k \in 1..5 :
          /\ FaultyUnits = {k}
          /\ ret.units[k].experiments # <<>>
          /\ Len(ret.units[k].topics) = 0
          /\ ret.units[k].lab_hours = <<3>>
    /\ ErrorId = "AT-EXPERIMENT-FORBIDDEN"

-----------------------------------------------------------------------------
(* The shipped override rules                                               *)

\* the category the rule called name requires
RuleCategory(name) ==
    CASE name = "Capstone Project (PCM)" -> "PCM"
      [] name = "EXSEL (MDM)" -> "MDM"
      [] name = "SEM Internship" -> "SEM"

\* C29: the shipped override rules require pairwise different categories, so
\* for every category, type and title at most one override predicate holds
\* and infer_content_shape never raises the error of several matched rules.
C29_OverridesDisjoint ==
    pc = "inferred" =>
        /\ \A m, n \in DOMAIN OVERRIDE_RULES :
              m # n => RuleCategory(OVERRIDE_RULES[m].name) # RuleCategory(OVERRIDE_RULES[n].name)
        /\ \A n \in DOMAIN MatchedNow :
              Args.category = Cat(RuleCategory(MatchedNow[n].name))
        /\ Len(MatchedNow) <= 1
        /\ ~(ret.kind = "InferenceError" /\ ret.what = "multiple override rules matched")

\* type and title meet what the capstone and the internship rule ask beside
\* the category; the category is MDM and only the EXSEL rule matches
C29_Witness ==
    /\ pc = "inferred"
    /\ Args.category = Cat("MDM")
    /\ Args.course_type = Typ("PC")
    /\ Args.course_title = tCapstoneProject
    /\ Len(MatchedNow) = 1
    /\ ret.kind = "InferenceResult"
    /\ ret.rule_source = <<"override:", "EXSEL (MDM)">>

-----------------------------------------------------------------------------
(* The activity check of the skill-practice shape                           *)

\* the unit loop of validate_skill_practice ran to its end
ReachedActivityCheck == ErrorId \in {"", "SP-ACTIVITY-MISSING", "SP-HOUR-MISMATCH"}

\* C30: validate_skill_practice raises SP-ACTIVITY-MISSING only for a course
\* without units: when a course with at least one unit reaches the check,
\* every unit has declared lab or activity hours and none as 0, so some unit
\* has nonzero lab or activity hours and has_activity is true.
C30_ActivityMissingOnlyWithoutUnits ==
    (pc = "validated" /\ ret.validator = "validate_skill_practice") =>
        /\ ErrorId = "SP-ACTIVITY-MISSING" => ret.units = <<>>
        /\ (ret.units # <<>> /\ ReachedActivityCheck) =>
              \A i \in DOMAIN ret.units :
                  \/ ret.units[i].lab_hours \notin {<<>>, <<0>>}
                  \/ ret.units[i].x_hours \notin {<<>>, <<0>>}

\* five units without an experiment entry reach the check and pass it
C30_Witness ==
    /\ pc = "validated"
    /\ ret.validator = "validate_skill_practice"
    /\ Len(ret.units) = 5
    /\ \A i \in 1..5 : ret.units[i].experiments = <<>>
    /\ ret.units[2].lab_hours = <<>> /\ ret.units[2].x_hours = <<2>>
    /\ ReachedActivityCheck
    /\ ErrorId # "SP-ACTIVITY-MISSING"

\* a document without unit headings ends in SP-ACTIVITY-MISSING
C30_NoUnits ==
    /\ pc = "validated"
    /\ ret.validator = "validate_skill_practice"
    /\ Args.sections = <<>>
    /\ ErrorId = "SP-ACTIVITY-MISSING"

-----------------------------------------------------------------------------
(* Properties of Stage-1: fenced blocks                                     *)

\* the fence run a line of FencedLines starts with, "" for a line that is no
\* fence line
RunOf(line) ==
    IF line = mdFence3 THEN "three backticks"
    ELSE IF line = mdFenceLong THEN "four backticks"
    ELSE IF line = mdTilde3 THEN "three tildes"
    ELSE ""

\* the run of the block that is open behind line k, "" outside the blocks
RECURSIVE OpenRun(_, _)
OpenRun(lines, k) ==
    IF k = 0 THEN "" ELSE FenceAfter(OpenRun(lines, k - 1), RunOf(lines[k]))

\* the lines that open a block
Openers ==
    { o \in DOMAIN TextLines : RunOf(TextLines[o]) # "" /\ OpenRun(TextLines, o - 1) = "" }

\* the line that closes the block line o opens: the first later line with the
\* same run, the last line of the text when there is none
CloserOf(o) ==
    Min({ c \in DOMAIN TextLines : c > o /\ RunOf(TextLines[c]) = RunOf(TextLines[o]) }
        \cup { Len(TextLines) })

\* the heading lines outside the blocks
FreeHeadings ==
    { k \in DOMAIN TextLines : TextLines[k] = mdHeading1 /\ OpenRun(TextLines, k - 1) = "" }

\* 1 when a line before the first heading outside the blocks is not blank
KeptPreamble ==
    IF \E k \in DOMAIN TextLines :
          /\ TextLines[k] # lnBlank
          /\ \A h \in FreeHeadings : k < h
    THEN 1 ELSE 0

\* the index of the section that is current at line k
SectionAt(k) ==
    IF \E h \in FreeHeadings : h < k
    THEN KeptPreamble + Cardinality({ h \in FreeHeadings : h < k })
    ELSE 1

\* C21: a line that starts with a run of three or more backticks or tildes
\* opens a block, and only a later line that starts with the same run, the
\* same character in the same number, closes it.  From the opening line to the
\* closing line, or to the end of the text when no line closes the block, no
\* line starts a section, and all these lines, the fence lines among them,
\* stand in the body of the section that was current at the opening line (the
\* body being trimmed as a whole).
C21_FencedLinesInert ==
    pc = "split" =>
        /\ Len(ret.sections) = Cardinality(FreeHeadings) + KeptPreamble
        /\ \A o \in Openers :
              Contains(ret.sections[SectionAt(o)].body,
                       Strip(JoinLines(SubSeq(TextLines, o, CloserOf(o)))))

\* three backticks open, four backticks do not close, the heading is inert,
\* three backticks close: one section holds the four lines
C21_Witness ==
    /\ pc = "split"
    /\ TextLines = <<mdFence3, mdFenceLong, mdHeading1, mdFence3>>
    /\ ret.sections = <<LeveledSection(0, PREAMBLE_TITLE, Args.md_text)>>

\* a block closed by its own run: the heading behind it starts a section
C21_ClosedBlock ==
    /\ pc = "split"
    /\ TextLines = <<mdTilde3, mdHeading1, mdTilde3, mdHeading1>>
    /\ ret.sections = <<LeveledSection(0, PREAMBLE_TITLE,
                                       JoinLines(<<mdTilde3, mdHeading1, mdTilde3>>)),
                        LeveledSection(1, ttUnit1, <<>>)>>

-----------------------------------------------------------------------------
(* Properties of Stage-1: the preamble                                      *)

\* every line of the text is blank
BlankText == \A k \in DOMAIN TextLines : TextLines[k] = lnBlank

\* C26: split_markdown_sections returns for every text.  A section of level 0
\* stands only at the first place of the result, is titled "__PREAMBLE__" and
\* is present exactly when a line before the first heading is not blank;
\* every other section has a level of 1 or more and a title that is not
\* empty.  A text without a heading gives the preamble section alone, and the
\* empty sequence when the text is blank.
C26_PreambleOnlyFirst ==
    pc = "split" =>
        /\ ret.kind = "Sections"
        /\ \A i \in DOMAIN ret.sections :
              IF ret.sections[i].level = 0
              THEN i = 1 /\ ret.sections[i].title = PREAMBLE_TITLE
              ELSE ret.sections[i].level >= 1 /\ ret.sections[i].title # <<>>
        /\ (ret.sections # <<>> /\ ret.sections[1].level = 0) <=> KeptPreamble = 1
        /\ FreeHeadings = {} =>
              ret.sections = IF BlankText THEN <<>>
                             ELSE <<LeveledSection(0, PREAMBLE_TITLE, Strip(Args.md_text))>>

\* blank lines before the first heading: no preamble section
C26_Witness ==
    /\ pc = "split"
    /\ TextLines = <<lnBlank, lnBlank, mdHeading1, lnProse>>
    /\ ret.sections = <<LeveledSection(1, ttUnit1, lnProse)>>

\* a blank text gives no section
C26_BlankText ==
    /\ pc = "split"
    /\ TextLines = <<lnBlank, lnBlank>>
    /\ ret.sections = <<>>

\* a text without a heading gives the preamble alone
C26_NoHeading ==
    /\ pc = "split"
    /\ TextLines = <<lnBlank, lnProse, lnBlank>>
    /\ ret.sections = <<LeveledSection(0, PREAMBLE_TITLE, lnProse)>>

-----------------------------------------------------------------------------
(* Properties of the batch runs                                             *)

\* the courses write_master_course_tex has tokenized so far
Written ==
    IF pc = "write_loop" THEN frame.written
    ELSE IF pc = "written" THEN ret.courses
    ELSE <<>>

\* the sections of each text of BatchTexts
SectionsOf(md_text) ==
    CASE md_text = mdUnitText -> <<LeveledSection(1, ttUnit1, lnProse)>>
      [] md_text = mdOpenFenceText -> <<LeveledSection(0, PREAMBLE_TITLE, mdOpenFenceText)>>
      [] md_text = mdPreambleText -> <<LeveledSection(0, PREAMBLE_TITLE, lnProse),
                                       LeveledSection(2, ttTopics, <<>>)>>

\* C22: split_markdown_sections is deterministic and keeps no state between
\* calls: in a run that tokenizes several texts, two calls on the same text
\* return the same sections, with the same levels, titles and bodies in the
\* same order, whatever was tokenized before or between them, and each text
\* gives the sections it gives when tokenized alone.
C22_TokenizerStateless ==
    /\ \A i, j \in DOMAIN Written :
          Written[i].md_text = Written[j].md_text =>
              Written[i].sections = Written[j].sections
    /\ \A i \in DOMAIN Written : Written[i].sections = SectionsOf(Written[i].md_text)

\* the same text before and behind a text that ends inside a fenced block
C22_Witness ==
    /\ pc = "written"
    /\ Len(ret.courses) = 3
    /\ ret.courses[1].md_text = mdUnitText
    /\ ret.courses[2].md_text = mdOpenFenceText
    /\ ret.courses[3].md_text = mdUnitText
    /\ ret.courses[1].sections = ret.courses[3].sections
    /\ ret.courses[3].sections = <<LeveledSection(1, ttUnit1, lnProse)>>

\* load_courses has returned: each listed code is loaded with the text of its
\* file or recorded as an error, in the order of the listing, and the two
\* counts add up to the number of listed codes
LoadAccounted ==
    (pc = "loaded" /\ ret.kind = "Loaded") =>
        /\ Len(ret.loaded) + Len(ret.errors) = ret.total
        /\ ret.total = Len(call.args.course_codes)
        /\ \A i \in DOMAIN call.args.files :
              IF call.args.files[i].readable
              THEN \E n \in DOMAIN ret.loaded :
                       ret.loaded[n] = <<call.args.course_codes[i], call.args.files[i].text>>
              ELSE \E n \in DOMAIN ret.errors :
                       ret.errors[n].course_code = call.args.course_codes[i]

\* process_courses_md.main has ended: each file gave a course or an error
MdAccounted ==
    pc = "md_done" =>
        \A i \in DOMAIN call.args.files :
            \/ \E n \in DOMAIN ret.courses : ret.courses[n] = i
            \/ \E n \in DOMAIN ret.all_errors : ret.all_errors[n][1] = i

\* process_courses.main has left its loop: each file was attempted
TexAccounted ==
    pc \in {"tex_parsed", "tex_exited"} => ret.attempted = Len(call.args.files)

\* C23: in a batch a failure on one document does not stop or change the
\* processing of the others: every listed document is processed or recorded
\* as an error, the documents behind a failing one are attempted, and for
\* load_courses the number loaded plus the number of error records is the
\* number of listed course codes.
C23_FailureIsolated == LoadAccounted /\ MdAccounted /\ TexAccounted

\* the two loops that catch the exception of a document account for every
\* document
C23_CatchingLoopsAccount == LoadAccounted /\ MdAccounted

\* process_courses.main exits at the first of three files
C23_ExitAtFirstFailure ==
    /\ pc = "tex_exited"
    /\ Len(call.args.files) = 3
    /\ ~call.args.files[1].readable
    /\ call.args.files[2].readable /\ call.args.files[3].readable
    /\ ret.attempted = 1
    /\ ret.courses = <<>>

====
